---------------------------- MODULE Spec2Model ----------------------------
(***************************************************************************)
(* A model of the scoring core of the vedic behavioral calendar:           *)
(* app/core/astrology_rules.py, constants.py, scoring.py, rule_loader.py   *)
(* and jh_report_parser.py.                                                *)
(*                                                                         *)
(* The core is a set of pure functions.  Each is written as an operator    *)
(* that computes what the Python computes, and is exercised by a           *)
(* specification whose initial states are the calls (function name and     *)
(* arguments) and whose action performs the call and stores what it        *)
(* returned or raised.  The one shared resource, the cache of the rule     *)
(* loader, is modelled with the threads that call score_day.               *)
(*                                                                         *)
(* Conventions                                                             *)
(*  - A call that may raise returns [exc |-> e, val |-> v]: exc = "" is    *)
(*    a normal return of v, any other exc is the Python exception raised.  *)
(*  - Python None is the string "None" where a sign or a name is expected  *)
(*    and the number NoneInt where a house is expected.                    *)
(*  - Text that the code edits character by character (lunar-mansion       *)
(*    names) is a sequence of one-character strings.                       *)
(*  - Python floats are exact rationals <<numerator, denominator>>.        *)
(***************************************************************************)
EXTENDS Integers, Sequences, FiniteSets, TLC

VARIABLES
    fn,      \* the function being called
    args,    \* its arguments
    pc,      \* "call" before the call, "return" after it
    ret,     \* what the call returned or raised
    cache,   \* rule_loader: the lru_cache of load_yaml_rule, by file name
    reads,   \* rule_loader: how many times each rule file was read and parsed
    data,    \* rule_loader: per thread, what load_yaml_rule is returning
    uploads, \* api/upload: the files of UPLOAD_DIR, by file id
    profiles \* profile_store: the profiles of PROFILES_DIR, by file id

vars == <<fn, args, pc, ret, cache, reads, data, uploads, profiles>>

\* the pure functions never reach the rule loader
LoaderUnused == cache = <<>> /\ reads = <<>> /\ data = <<>>

\* nor the upload directory and the profile store
StoreUnused == uploads = <<>> /\ profiles = <<>>

Ok(v) == [exc |-> "", val |-> v]
Raise(e, v) == [exc |-> e, val |-> v]
Pending == [exc |-> "pending", val |-> 0]

-----------------------------------------------------------------------------
(* Python str methods, on sequences of one-character strings.              *)

UpperChars ==
    <<"A","B","C","D","E","F","G","H","I","J","K","L","M",
      "N","O","P","Q","R","S","T","U","V","W","X","Y","Z">>
LowerChars ==
    <<"a","b","c","d","e","f","g","h","i","j","k","l","m",
      "n","o","p","q","r","s","t","u","v","w","x","y","z">>

\* str.lower() on one character
LowerChar(c) ==
    IF \E i \in 1..Len(UpperChars) : UpperChars[i] = c
    THEN LowerChars[CHOOSE i \in 1..Len(UpperChars) : UpperChars[i] = c]
    ELSE c

\* str.lower()
StrLower(s) == [i \in 1..Len(s) |-> LowerChar(s[i])]

\* str.strip(): leading and trailing blanks removed
RECURSIVE StrLStrip(_)
StrLStrip(s) ==
    IF s # <<>> /\ Head(s) = " " THEN StrLStrip(Tail(s)) ELSE s

RECURSIVE StrRStrip(_)
StrRStrip(s) ==
    IF s # <<>> /\ s[Len(s)] = " " THEN StrRStrip(SubSeq(s, 1, Len(s) - 1)) ELSE s

StrStrip(s) == StrRStrip(StrLStrip(s))

\* s.split(c)[0]: the text before the first c, all of s when there is none
RECURSIVE StrBefore(_, _)
StrBefore(s, c) ==
    IF s = <<>> \/ Head(s) = c THEN <<>> ELSE <<Head(s)>> \o StrBefore(Tail(s), c)

\* s.replace(c, "")
RECURSIVE StrRemove(_, _)
StrRemove(s, c) ==
    IF s = <<>> THEN <<>>
    ELSE IF Head(s) = c THEN StrRemove(Tail(s), c)
    ELSE <<Head(s)>> \o StrRemove(Tail(s), c)

\* s.replace(old, new) for a pattern old of one or two characters:
\* non-overlapping occurrences, left to right
RECURSIVE StrReplace(_, _, _)
StrReplace(s, old, new) ==
    IF Len(s) < Len(old) THEN s
    ELSE IF SubSeq(s, 1, Len(old)) = old
         THEN new \o StrReplace(SubSeq(s, Len(old) + 1, Len(s)), old, new)
         ELSE <<Head(s)>> \o StrReplace(Tail(s), old, new)

\* list.index(x) of Python, 0-based; -1 stands for "x not in list"
ListIndex(list, x) ==
    IF \E i \in 1..Len(list) : list[i] = x
    THEN (CHOOSE i \in 1..Len(list) :
             list[i] = x /\ \A j \in 1..(i - 1) : list[j] # x) - 1
    ELSE -1

-----------------------------------------------------------------------------
(* app/core/constants.py                                                   *)

RASI_ORDER == <<"Ar", "Ta", "Ge", "Cn", "Le", "Vi", "Li", "Sc", "Sg", "Cp", "Aq", "Pi">>

NAK_ORDER ==
    <<
      <<"A", "s", "w", "i">>,
      <<"B", "h", "a", "r">>,
      <<"K", "r", "i", "t">>,
      <<"R", "o", "h", "i">>,
      <<"M", "r", "i", "g">>,
      <<"A", "r", "d", "r">>,
      <<"P", "u", "n", "a">>,
      <<"P", "u", "s", "h">>,
      <<"A", "s", "l", "e">>,
      <<"M", "a", "g", "h">>,
      <<"P", "P", "h", "a">>,
      <<"U", "P", "h", "a">>,
      <<"H", "a", "s", "t">>,
      <<"C", "h", "i", "t">>,
      <<"S", "w", "a", "t">>,
      <<"V", "i", "s", "a">>,
      <<"A", "n", "u">>,
      <<"J", "y", "e">>,
      <<"M", "o", "o", "l">>,
      <<"P", "S", "h", "a">>,
      <<"U", "S", "h", "a">>,
      <<"S", "r", "a", "v">>,
      <<"D", "h", "a", "n">>,
      <<"S", "a", "t", "a">>,
      <<"P", "B", "h", "a">>,
      <<"U", "B", "h", "a">>,
      <<"R", "e", "v", "a">>
    >>

\* The alias table of nak_to_index: <<normalised full name, abbreviation>>.
full_to_abbr_norm ==
    {
      <<<<"a", "s", "h", "w", "i", "n", "i">>, <<"A", "s", "w", "i">>>>,
      <<<<"a", "s", "w", "i", "n", "i">>, <<"A", "s", "w", "i">>>>,
      <<<<"a", "s", "v", "i", "n", "i">>, <<"A", "s", "w", "i">>>>,
      <<<<"a", "s", "h", "v", "i", "n", "i">>, <<"A", "s", "w", "i">>>>,
      <<<<"b", "h", "a", "r", "a", "n", "i">>, <<"B", "h", "a", "r">>>>,
      <<<<"k", "r", "i", "t", "t", "i", "k", "a">>, <<"K", "r", "i", "t">>>>,
      <<<<"r", "o", "h", "i", "n", "i">>, <<"R", "o", "h", "i">>>>,
      <<<<"m", "r", "i", "g", "a", "s", "h", "i", "r", "s", "h", "a">>, <<"M", "r", "i", "g">>>>,
      <<<<"m", "r", "i", "g", "a", "s", "i", "r", "s", "h", "a">>, <<"M", "r", "i", "g">>>>,
      <<<<"m", "r", "i", "g", "a", "s", "h", "i", "r", "a">>, <<"M", "r", "i", "g">>>>,
      <<<<"m", "r", "i", "g", "a", "s", "i", "r", "a">>, <<"M", "r", "i", "g">>>>,
      <<<<"a", "r", "d", "r", "a">>, <<"A", "r", "d", "r">>>>,
      <<<<"p", "u", "n", "a", "r", "v", "a", "s", "u">>, <<"P", "u", "n", "a">>>>,
      <<<<"p", "u", "s", "h", "y", "a">>, <<"P", "u", "s", "h">>>>,
      <<<<"a", "s", "h", "l", "e", "s", "h", "a">>, <<"A", "s", "l", "e">>>>,
      <<<<"a", "s", "l", "e", "s", "h", "a">>, <<"A", "s", "l", "e">>>>,
      <<<<"m", "a", "g", "h", "a">>, <<"M", "a", "g", "h">>>>,
      <<<<"p", "o", "o", "r", "v", "a", "p", "h", "a", "l", "g", "u", "n", "i">>, <<"P", "P", "h", "a">>>>,
      <<<<"p", "u", "r", "v", "a", "p", "h", "a", "l", "g", "u", "n", "i">>, <<"P", "P", "h", "a">>>>,
      <<<<"u", "t", "t", "a", "r", "a", "p", "h", "a", "l", "g", "u", "n", "i">>, <<"U", "P", "h", "a">>>>,
      <<<<"h", "a", "s", "t", "a">>, <<"H", "a", "s", "t">>>>,
      <<<<"c", "h", "i", "t", "r", "a">>, <<"C", "h", "i", "t">>>>,
      <<<<"s", "w", "a", "t", "i">>, <<"S", "w", "a", "t">>>>,
      <<<<"v", "i", "s", "a", "k", "h", "a">>, <<"V", "i", "s", "a">>>>,
      <<<<"v", "i", "s", "h", "a", "k", "h", "a">>, <<"V", "i", "s", "a">>>>,
      <<<<"a", "n", "u", "r", "a", "d", "h", "a">>, <<"A", "n", "u">>>>,
      <<<<"j", "y", "e", "s", "h", "t", "h", "a">>, <<"J", "y", "e">>>>,
      <<<<"j", "y", "e", "s", "t", "h", "a">>, <<"J", "y", "e">>>>,
      <<<<"m", "u", "l", "a">>, <<"M", "o", "o", "l">>>>,
      <<<<"m", "o", "o", "l", "a">>, <<"M", "o", "o", "l">>>>,
      <<<<"p", "o", "o", "r", "v", "a", "a", "s", "h", "a", "d", "h", "a">>, <<"P", "S", "h", "a">>>>,
      <<<<"p", "u", "r", "v", "a", "a", "s", "h", "a", "d", "h", "a">>, <<"P", "S", "h", "a">>>>,
      <<<<"p", "u", "r", "v", "a", "s", "h", "a", "d", "h", "a">>, <<"P", "S", "h", "a">>>>,
      <<<<"u", "t", "t", "a", "r", "a", "a", "s", "h", "a", "d", "h", "a">>, <<"U", "S", "h", "a">>>>,
      <<<<"u", "t", "t", "a", "r", "a", "s", "h", "a", "d", "h", "a">>, <<"U", "S", "h", "a">>>>,
      <<<<"s", "h", "r", "a", "v", "a", "n", "a">>, <<"S", "r", "a", "v">>>>,
      <<<<"s", "r", "a", "v", "a", "n", "a">>, <<"S", "r", "a", "v">>>>,
      <<<<"d", "h", "a", "n", "i", "s", "h", "t", "a">>, <<"D", "h", "a", "n">>>>,
      <<<<"s", "h", "r", "a", "v", "i", "s", "h", "t", "h", "a">>, <<"D", "h", "a", "n">>>>,
      <<<<"s", "h", "a", "t", "a", "b", "h", "i", "s", "h", "a">>, <<"S", "a", "t", "a">>>>,
      <<<<"s", "a", "t", "a", "b", "h", "i", "s", "h", "a">>, <<"S", "a", "t", "a">>>>,
      <<<<"s", "h", "a", "t", "a", "r", "a", "k", "a">>, <<"S", "a", "t", "a">>>>,
      <<<<"p", "o", "o", "r", "v", "a", "b", "h", "a", "d", "r", "a", "p", "a", "d", "a">>, <<"P", "B", "h", "a">>>>,
      <<<<"p", "u", "r", "v", "a", "b", "h", "a", "d", "r", "a", "p", "a", "d", "a">>, <<"P", "B", "h", "a">>>>,
      <<<<"p", "u", "r", "v", "a", "b", "h", "a", "d", "r", "a">>, <<"P", "B", "h", "a">>>>,
      <<<<"u", "t", "t", "a", "r", "a", "b", "h", "a", "d", "r", "a", "p", "a", "d", "a">>, <<"U", "B", "h", "a">>>>,
      <<<<"u", "t", "t", "a", "r", "a", "b", "h", "a", "d", "r", "a">>, <<"U", "B", "h", "a">>>>,
      <<<<"r", "e", "v", "a", "t", "i">>, <<"R", "e", "v", "a">>>>
    }

TARA_INDEX_TO_LABEL ==
    [i \in 1..9 |->
        CASE i = 1 -> "Janma"
          [] i = 2 -> "Sampat"
          [] i = 3 -> "Vipat"
          [] i = 4 -> "Kshem"
          [] i = 5 -> "Pratyari"
          [] i = 6 -> "Sadhana"
          [] i = 7 -> "Naidhana"
          [] i = 8 -> "Mitra"
          [] i = 9 -> "ParamaMitra"]

-----------------------------------------------------------------------------
(* app/core/astrology_rules.py                                             *)

\* rasi_to_index: ValueError for a token that is no sign code
rasi_to_index(rasi) ==
    IF ListIndex(RASI_ORDER, rasi) = -1
    THEN Raise("ValueError", 0)
    ELSE Ok(ListIndex(RASI_ORDER, rasi))

house_from_lagna_and_moon_swapped(lagna_rasi, moon_rasi) ==
    LET li == rasi_to_index(lagna_rasi)
        mi == rasi_to_index(moon_rasi)
    IN  IF li.exc # "" THEN li
        ELSE IF mi.exc # "" THEN mi
        ELSE Ok(((li.val - mi.val) % 12) + 1)

\* house_from_lagna_and_moon(lagna_rasi, moon_rasi): the house of moon_rasi
\* counted from lagna_rasi
house_from_lagna_and_moon(lagna_rasi, moon_rasi) ==
    LET li == rasi_to_index(lagna_rasi)
        mi == rasi_to_index(moon_rasi)
    IN  IF li.exc # "" THEN li
        ELSE IF mi.exc # "" THEN mi
        ELSE Ok(((mi.val - li.val) % 12) + 1)

\* The candidate spellings nak_to_index looks up: x_norm and its four
\* substitution variants.
NakCandidates(x_norm) ==
    { x_norm,
      StrReplace(x_norm, <<"o", "o">>, <<"u">>),
      StrReplace(x_norm, <<"s", "h">>, <<"s">>),
      StrReplace(x_norm, <<"w">>, <<"v">>),
      StrReplace(x_norm, <<"v">>, <<"w">>) }

\* The abbreviations the alias table gives for the candidates.  The code
\* iterates over a Python set and returns at the first hit, so when this set
\* had two members either could be returned.
NakHits(x_norm) ==
    { e[2] : e \in { f \in full_to_abbr_norm : f[1] \in NakCandidates(x_norm) } }

nak_to_index(nak) ==
    LET x0 == StrStrip(nak)
        x  == IF \E i \in 1..Len(x0) : x0[i] = "("
              THEN StrStrip(StrBefore(x0, "("))
              ELSE x0
        x_norm == StrRemove(StrRemove(StrLower(x), " "), "-")
    IN  IF ListIndex(NAK_ORDER, x) # -1 THEN Ok(ListIndex(NAK_ORDER, x))
        ELSE IF NakHits(x_norm) # {}
             THEN Ok(ListIndex(NAK_ORDER, CHOOSE a \in NakHits(x_norm) : TRUE))
             ELSE Raise("ValueError", 0)

tara_bala_label_swapped(natal_nak, transit_nak) ==
    LET n == nak_to_index(natal_nak)
        t == nak_to_index(transit_nak)
    IN  IF n.exc # "" THEN Raise(n.exc, "")
        ELSE IF t.exc # "" THEN Raise(t.exc, "")
        ELSE LET count == ((n.val - t.val) % 27) + 1
                 tara_idx == ((count - 1) % 9) + 1
             IN  Ok(TARA_INDEX_TO_LABEL[tara_idx])

tara_bala_label(natal_nak, transit_nak) ==
    LET n == nak_to_index(natal_nak)
        t == nak_to_index(transit_nak)
    IN  IF n.exc # "" THEN Raise(n.exc, "")
        ELSE IF t.exc # "" THEN Raise(t.exc, "")
        ELSE LET count == ((t.val - n.val) % 27) + 1
                 tara_idx == ((count - 1) % 9) + 1
             IN  Ok(TARA_INDEX_TO_LABEL[tara_idx])


-----------------------------------------------------------------------------
(* app/core/scoring.py: the dasha relationship                             *)

relationship_mapping ==
    [d \in 0..11 |->
        CASE d = 0  -> "1/1"
          [] d = 1  -> "2/12"
          [] d = 2  -> "3/11"
          [] d = 3  -> "4/10"
          [] d = 4  -> "5/9"
          [] d = 5  -> "6/8"
          [] d = 6  -> "7/7"
          [] d = 7  -> "6/8"
          [] d = 8  -> "5/9"
          [] d = 9  -> "4/10"
          [] d = 10 -> "3/11"
          [] d = 11 -> "2/12"]

relationship_from_houses_unfolded(maha_house, antar_house) ==
    LET diff == (antar_house - maha_house) % 12
    IN  IF diff <= 6 THEN relationship_mapping[diff]
        ELSE relationship_mapping[diff - 6]

relationship_from_houses(maha_house, antar_house) ==
    LET diff == (antar_house - maha_house) % 12
    IN  relationship_mapping[diff]

-----------------------------------------------------------------------------
(* Calls of house_from_lagna_and_moon                                      *)

\* The sign tokens a call is made with: the twelve sign codes and one token
\* that is no sign code.
SignTokens == { RASI_ORDER[i] : i \in 1..Len(RASI_ORDER) } \cup { "Xx" }

InitHouse ==
    /\ fn = "house_from_lagna_and_moon"
    /\ args \in [lagna_rasi : SignTokens, moon_rasi : SignTokens]
    /\ pc = "call"
    /\ ret = Pending
    /\ LoaderUnused
    /\ StoreUnused

CallHouse ==
    /\ fn = "house_from_lagna_and_moon"
    /\ pc = "call"
    /\ ret' = house_from_lagna_and_moon(args.lagna_rasi, args.moon_rasi)
    /\ pc' = "return"
    /\ UNCHANGED <<fn, args, cache, reads, data, uploads, profiles>>

NextHouse == CallHouse

SpecHouse == InitHouse /\ [][NextHouse]_vars

-----------------------------------------------------------------------------
(* Calls of relationship_from_houses                                       *)

\* get_dasha_relationship calls it with two houses of planet_houses, each
\* a value of house_from_lagna_and_moon.
InitRelationship ==
    /\ fn = "relationship_from_houses"
    /\ args \in [maha_house : 1..12, antar_house : 1..12]
    /\ pc = "call"
    /\ ret = Pending
    /\ LoaderUnused
    /\ StoreUnused

CallRelationship ==
    /\ fn = "relationship_from_houses"
    /\ pc = "call"
    /\ ret' = Ok(relationship_from_houses(args.maha_house, args.antar_house))
    /\ pc' = "return"
    /\ UNCHANGED <<fn, args, cache, reads, data, uploads, profiles>>

NextRelationship == CallRelationship

SpecRelationship == InitRelationship /\ [][NextRelationship]_vars

-----------------------------------------------------------------------------
(* Calls of tara_bala_label                                                *)

\* The natal name is what the report's Nakshatra line holds (a full name);
\* the transit name is the NAK_ORDER entry of the day.  Both arguments range
\* over the 27 abbreviations, some full names and spellings, and one token
\* that names no mansion.
NakFullNames ==
    { <<"V","i","s","a","k","h","a">>,
      <<"V","i","s","h","a","k","h","a">>,
      <<"A","n","u","r","a","d","h","a">>,
      <<"M","o","o","l","a">>,
      <<"S","w","a","t","i">>,
      <<"R","e","v","a","t","i"," ","(","M","e",")">>,
      <<"P","u","r","v","a","-","P","h","a","l","g","u","n","i">>,
      <<"A","b","h","i","j","i","t">> }

NakTokens == { NAK_ORDER[i] : i \in 1..Len(NAK_ORDER) } \cup NakFullNames

InitTara ==
    /\ fn = "tara_bala_label"
    /\ args \in [natal_nak : NakTokens, transit_nak : NakTokens]
    /\ pc = "call"
    /\ ret = Pending
    /\ LoaderUnused
    /\ StoreUnused

CallTara ==
    /\ fn = "tara_bala_label"
    /\ pc = "call"
    /\ ret' = tara_bala_label(args.natal_nak, args.transit_nak)
    /\ pc' = "return"
    /\ UNCHANGED <<fn, args, cache, reads, data, uploads, profiles>>

NextTara == CallTara

SpecTara == InitTara /\ [][NextTara]_vars

-----------------------------------------------------------------------------
(* Claims about house_from_lagna_and_moon, relationship_from_houses and    *)
(* tara_bala_label                                                         *)

Signs == { RASI_ORDER[i] : i \in 1..Len(RASI_ORDER) }

\* The position of a sign in the ordered sign set, 0..11
SignIndex(s) == CHOOSE i \in 0..11 : RASI_ORDER[i + 1] = s

HouseReturned == fn = "house_from_lagna_and_moon" /\ pc = "return"

\* C9: for every reference sign r and target sign t of the twelve signs,
\* house_from_lagna_and_moon(r, t) returns ((index(t) - index(r)) mod 12) + 1,
\* which lies in 1..12 and is the number of signs counted from r (r itself
\* being 1) at which t is met; house(s, s) = 1.
C9_HouseArithmetic ==
    (HouseReturned /\ args.lagna_rasi \in Signs /\ args.moon_rasi \in Signs) =>
        /\ ret.exc = ""
        /\ ret.val = ((SignIndex(args.moon_rasi) - SignIndex(args.lagna_rasi)) % 12) + 1
        /\ ret.val \in 1..12
        /\ RASI_ORDER[((SignIndex(args.lagna_rasi) + ret.val - 1) % 12) + 1] = args.moon_rasi
        /\ (args.lagna_rasi = args.moon_rasi => ret.val = 1)

\* A call whose target sign precedes the reference sign in the sign order
\* (the subtraction is negative before the mod): Aries from Scorpio is house 6.
C9_Witness ==
    /\ HouseReturned
    /\ args.lagna_rasi = "Sc" /\ args.moon_rasi = "Ar"
    /\ ret.exc = "" /\ ret.val = 6

RelationshipReturned == fn = "relationship_from_houses" /\ pc = "return"

\* The seven relationship codes, by the smaller of the offsets d and 12 - d
FoldedCodes == <<"1/1", "2/12", "3/11", "4/10", "5/9", "6/8", "7/7">>

Min(a, b) == IF a <= b THEN a ELSE b

\* C10: for every major house and sub house in 1..12 the code returned by
\* relationship_from_houses is decided by diff = (sub - major) mod 12, offsets
\* d and 12 - d give the same one of exactly seven codes, diff 0 gives "1/1",
\* diff 6 gives "7/7", diffs 5 and 7 give "6/8", and (major 1, sub 5) gives
\* "5/9".
C10_RelationshipCode ==
    RelationshipReturned =>
        LET diff == (args.antar_house - args.maha_house) % 12
        IN  /\ ret.exc = ""
            /\ ret.val = FoldedCodes[Min(diff, 12 - diff) + 1]
            /\ (diff = 0 => ret.val = "1/1")
            /\ (diff = 6 => ret.val = "7/7")
            /\ (diff \in {5, 7} => ret.val = "6/8")
            /\ ((args.maha_house = 1 /\ args.antar_house = 5) => ret.val = "5/9")
            /\ Cardinality({ relationship_from_houses(1, a) : a \in 1..12 }) = 7

\* The sub house behind the major house, at offset 7: the code of offset 5.
C10_Witness ==
    /\ RelationshipReturned
    /\ args.maha_house = 10 /\ args.antar_house = 5
    /\ ret.val = "6/8"

TaraReturned == fn = "tara_bala_label" /\ pc = "return"

\* The nine labels in the order of the tara-bala cycle
TaraOrder ==
    <<"Janma", "Sampat", "Vipat", "Kshem", "Pratyari",
      "Sadhana", "Naidhana", "Mitra", "ParamaMitra">>

Visakha == <<"V","i","s","a","k","h","a">>
Anuradha == <<"A","n","u","r","a","d","h","a">>

\* C8: when both names resolve to mansion indices n and t in 0..26,
\* tara_bala_label returns the k-th label of the fixed order with
\* k = (((t - n) mod 27) mod 9) + 1, so it depends on (t - n) mod 27 alone;
\* label(n, n) is "Janma"; natal "Visakha" is index 15, transit "Anuradha"
\* is index 16 and their label is "Sampat".
C8_TaraLabel ==
    (TaraReturned /\ nak_to_index(args.natal_nak).exc = ""
                  /\ nak_to_index(args.transit_nak).exc = "") =>
        LET n == nak_to_index(args.natal_nak).val
            t == nak_to_index(args.transit_nak).val
        IN  /\ n \in 0..26 /\ t \in 0..26
            /\ ret.exc = ""
            /\ ret.val = TaraOrder[(((t - n) % 27) % 9) + 1]
            /\ (n = t => ret.val = "Janma")
            /\ (args.natal_nak = Visakha => n = 15)
            /\ (args.transit_nak = Anuradha => t = 16)
            /\ ((args.natal_nak = Visakha /\ args.transit_nak = Anuradha)
                    => ret.val = "Sampat")

\* The scenario of the specification, with both names given in full.
C8_Witness ==
    /\ TaraReturned
    /\ args.natal_nak = Visakha /\ args.transit_nak = Anuradha
    /\ ret.exc = "" /\ ret.val = "Sampat"

-----------------------------------------------------------------------------
(* Python floats, as exact rationals <<numerator, denominator>> with a     *)
(* positive denominator                                                    *)

RECURSIVE Gcd(_, _)
Gcd(a, b) == IF b = 0 THEN a ELSE Gcd(b, a % b)

Abs(x) == IF x < 0 THEN -x ELSE x

\* n / d in lowest terms
Rat(n, d) ==
    LET g == Gcd(Abs(n), Abs(d))
        s == IF d < 0 THEN -1 ELSE 1
    IN  <<(s * n) \div g, (s * d) \div g>>

\* float(i) of an int
RInt(i) == <<i, 1>>

RAdd(a, b) == Rat(a[1] * b[2] + b[1] * a[2], a[2] * b[2])
RSub(a, b) == Rat(a[1] * b[2] - b[1] * a[2], a[2] * b[2])
RMul(a, b) == Rat(a[1] * b[1], a[2] * b[2])
RDiv(a, b) == Rat(a[1] * b[2], a[2] * b[1])
RLe(a, b) == a[1] * b[2] <= b[1] * a[2]
RLt(a, b) == a[1] * b[2] < b[1] * a[2]
RMax(a, b) == IF RLt(a, b) THEN b ELSE a
RMin(a, b) == IF RLt(b, a) THEN b ELSE a

\* dict.get(key, default)
Get(d, key, default) == IF key \in DOMAIN d THEN d[key] ELSE default

\* A dict with no key
EmptyDict == [k \in {} |-> 0]

-----------------------------------------------------------------------------
(* app/core/scoring.py: the built-in rule catalog and classify_signal      *)

DEFAULT_signal_thresholds ==
    [green |-> RInt(75), yellow |-> RInt(60), vipat_pratyari_force_green |-> RInt(85)]

classify_signal_pratyari_only(total_index, tara_label, rules) ==
    IF tara_label = "Naidhana" THEN "red"
    ELSE
        LET th == Get(rules, "signal_thresholds", DEFAULT_signal_thresholds)
        IN  IF RLe(Get(th, "green", RInt(70)), RInt(total_index))
            THEN IF tara_label \in {"Pratyari"}
                    /\ RLt(RInt(total_index), Get(th, "vipat_pratyari_force_green", RInt(85)))
                 THEN "yellow"
                 ELSE "green"
            ELSE IF RLe(Get(th, "yellow", RInt(60)), RInt(total_index))
                 THEN "yellow"
                 ELSE "red"

\* classify_signal(total_index, tara_label, rules).  The fallback of a
\* missing "green" key is 70 in the code (line 592).
classify_signal(total_index, tara_label, rules) ==
    IF tara_label = "Naidhana" THEN "red"
    ELSE
        LET th == Get(rules, "signal_thresholds", DEFAULT_signal_thresholds)
        IN  IF RLe(Get(th, "green", RInt(70)), RInt(total_index))
            THEN IF tara_label \in {"Vipat", "Pratyari"}
                    /\ RLt(RInt(total_index), Get(th, "vipat_pratyari_force_green", RInt(85)))
                 THEN "yellow"
                 ELSE "green"
            ELSE IF RLe(Get(th, "yellow", RInt(60)), RInt(total_index))
                 THEN "yellow"
                 ELSE "red"

-----------------------------------------------------------------------------
(* Calls of classify_signal                                                *)

\* The largest total index a call is made with
MaxIndex == 100

TaraLabels == { TARA_INDEX_TO_LABEL[i] : i \in 1..9 }

\* signal_thresholds tables: every subset of the three keys, each key with
\* one of two values (the second green and force-green values are not
\* whole numbers)
ThresholdKeys == {"green", "yellow", "vipat_pratyari_force_green"}

ThresholdTables ==
    { [k \in K |-> full[k]] :
        K \in SUBSET ThresholdKeys,
        full \in [green : {RInt(80), <<145, 2>>},
                  yellow : {RInt(50), RInt(65)},
                  vipat_pratyari_force_green : {RInt(78), <<181, 2>>}] }

\* Rule catalogs as far as classify_signal reads them: without the
\* signal_thresholds key, or with one of the tables
SignalCatalogs ==
    { EmptyDict } \cup { [k \in {"signal_thresholds"} |-> t] : t \in ThresholdTables }

InitSignal ==
    /\ fn = "classify_signal"
    /\ args \in [total_index : 0..MaxIndex, tara_label : TaraLabels, rules : SignalCatalogs]
    /\ pc = "call"
    /\ ret = Pending
    /\ LoaderUnused
    /\ StoreUnused

CallSignal ==
    /\ fn = "classify_signal"
    /\ pc = "call"
    /\ ret' = Ok(classify_signal(args.total_index, args.tara_label, args.rules))
    /\ pc' = "return"
    /\ UNCHANGED <<fn, args, cache, reads, data, uploads, profiles>>

NextSignal == CallSignal

SpecSignal == InitSignal /\ [][NextSignal]_vars

-----------------------------------------------------------------------------
(* Claims about classify_signal                                            *)

SignalReturned == fn = "classify_signal" /\ pc = "return"

\* The thresholds as the specification gives them: the catalog's value, and
\* for a missing key the compiled-in default (green 75, yellow 60,
\* force-green 85).
StatedThreshold(rules, key) ==
    LET compiled == [green |-> RInt(75), yellow |-> RInt(60),
                     vipat_pratyari_force_green |-> RInt(85)]
    IN  IF "signal_thresholds" \in DOMAIN rules
           /\ key \in DOMAIN rules["signal_thresholds"]
        THEN rules["signal_thresholds"][key]
        ELSE compiled[key]

\* C3: for every total index and every rule catalog, label "Naidhana" yields
\* red, and label "Vipat" or "Pratyari" with the index in
\* [green threshold, force-green threshold) yields yellow.
C3_SignalOverrides ==
    SignalReturned =>
        /\ (args.tara_label = "Naidhana" => ret.val = "red")
        /\ (( /\ args.tara_label \in {"Vipat", "Pratyari"}
              /\ RLe(StatedThreshold(args.rules, "green"), RInt(args.total_index))
              /\ RLt(RInt(args.total_index),
                     StatedThreshold(args.rules, "vipat_pratyari_force_green")) )
                => ret.val = "yellow")

\* A Vipat day whose index is above the green threshold and below the
\* force-green threshold of a catalog that sets both: yellow.
C3_Witness ==
    /\ SignalReturned
    /\ args.tara_label = "Vipat"
    /\ args.rules = [k \in {"signal_thresholds"} |->
                        [green |-> RInt(80), vipat_pratyari_force_green |-> <<181, 2>>]]
    /\ args.total_index = 90
    /\ ret.val = "yellow"

\* C4: for a label other than Naidhana, Vipat and Pratyari, classify_signal
\* returns green when index >= green threshold, yellow when
\* yellow threshold <= index < green threshold, and red otherwise, a missing
\* threshold key taking the compiled-in default (green 75, yellow 60).
C4_SignalThresholds ==
    (SignalReturned /\ args.tara_label \notin {"Naidhana", "Vipat", "Pratyari"}) =>
        ret.val =
            IF RLe(StatedThreshold(args.rules, "green"), RInt(args.total_index))
            THEN "green"
            ELSE IF RLe(StatedThreshold(args.rules, "yellow"), RInt(args.total_index))
                 THEN "yellow"
                 ELSE "red"

-----------------------------------------------------------------------------
(* app/core/scoring.py: synthesize_scores                                  *)

DIMENSIONS == <<"emotion", "wealth", "career", "social", "vitality">>

DimensionSet == { DIMENSIONS[i] : i \in 1..Len(DIMENSIONS) }

DEFAULT_clamp == [min |-> RInt(5), max |-> RInt(99)]

DEFAULT_score_model ==
    [dasha_weight |-> <<4, 10>>,
     daily_dynamic_weight |-> <<6, 10>>,
     daily_dynamic_baseline |-> RInt(70),
     gochara_amplifier |-> RInt(2)]

clamp_unbounded_above(x, lo, hi) == RMax(lo, x)

\* mutant: the lower bound is dropped
clamp_unbounded_below(x, lo, hi) == RMin(hi, x)

\* astrology_rules.clamp(x, lo, hi) = max(lo, min(hi, x))
clamp(x, lo, hi) == RMax(lo, RMin(hi, x))

\* floor(x)
Floor(x) == x[1] \div x[2]

\* x is exactly half way between two integers
IsTie(x) == 2 * (x[1] - Floor(x) * x[2]) = x[2]

\* round(x) of Python 3 on a float that holds x exactly: the nearest
\* integer, a tie going to the even one
RoundHalfEven(x) ==
    LET f == Floor(x)
        twice == 2 * (x[1] - f * x[2])
    IN  IF twice < x[2] THEN f
        ELSE IF twice > x[2] THEN f + 1
        ELSE IF f % 2 = 0 THEN f ELSE f + 1

\* int(round(clamp(x, lo, hi))) of lines 561 and 573: the integers it can
\* return.  lo and hi are floats read from the catalog; x is the result of
\* float products and sums, so the float holds the rational x plus a
\* representation error (50.0 * 0.9 * 0.7 is 31.499999999999996, not 31.5).
\* When the clamp returns x itself and x is exactly half way between two
\* integers, either neighbour can come out; in every other case the result
\* is the one of round().
clamp_round_outcomes(x, lo, hi) ==
    LET c == clamp(x, lo, hi)
    IN  IF IsTie(c) /\ c = Rat(x[1], x[2])
        THEN {Floor(c), Floor(c) + 1}
        ELSE {RoundHalfEven(c)}

blend_weights_as_configured(dasha_w, daily_w) ==
    LET w_sum == RAdd(dasha_w, daily_w)
    IN  IF RLe(w_sum, RInt(0)) THEN <<(<<4, 10>>), (<<6, 10>>)>>
        ELSE <<dasha_w, daily_w>>

\* Lines 546-550: the blend weights made to sum to 1.  abs(w_sum - 1.0) >
\* 1e-9 is w_sum # 1 for the weights of the model, whose denominators are far
\* below 10^9; when it is false the weights are kept, and they are then
\* their own quotient by the sum.
blend_weights(dasha_w, daily_w) ==
    LET w_sum == RAdd(dasha_w, daily_w)
    IN  IF RLe(w_sum, RInt(0)) THEN <<(<<4, 10>>), (<<6, 10>>)>>
        ELSE IF RSub(w_sum, RInt(1))[1] # 0
             THEN <<RDiv(dasha_w, w_sum), RDiv(daily_w, w_sum)>>
             ELSE <<dasha_w, daily_w>>

\* max(dim_scores.values()) and sum(dim_scores.values())
RECURSIVE MaxOver(_, _)
MaxOver(f, keys) ==
    IF Len(keys) = 1 THEN f[keys[1]]
    ELSE LET m == MaxOver(f, Tail(keys))
         IN  IF f[keys[1]] >= m THEN f[keys[1]] ELSE m

RECURSIVE SumOver(_, _)
SumOver(f, keys) ==
    IF keys = <<>> THEN 0 ELSE f[keys[1]] + SumOver(f, Tail(keys))

total_index_mean_heavy(dim_scores, lo, hi) ==
    LET mx == MaxOver(dim_scores, DIMENSIONS)
        mean == Rat(SumOver(dim_scores, DIMENSIONS), Len(DIMENSIONS))
    IN  clamp_round_outcomes(RAdd(RMul(RInt(mx), <<7, 10>>), RMul(mean, <<3, 10>>)), lo, hi)

\* mutant: the sum of the dimension scores is not divided by their number
total_index_unaveraged(dim_scores, lo, hi) ==
    LET mx == MaxOver(dim_scores, DIMENSIONS)
        sum == RInt(SumOver(dim_scores, DIMENSIONS))
    IN  clamp_round_outcomes(RAdd(RMul(RInt(mx), <<3, 10>>), RMul(sum, <<7, 10>>)), lo, hi)

\* Lines 571-573: the total index from the dimension scores (the set of
\* values it can take, see clamp_round_outcomes)
total_index_of(dim_scores, lo, hi) ==
    LET mx == MaxOver(dim_scores, DIMENSIONS)
        mean == Rat(SumOver(dim_scores, DIMENSIONS), Len(DIMENSIONS))
    IN  clamp_round_outcomes(RAdd(RMul(RInt(mx), <<3, 10>>), RMul(mean, <<7, 10>>)), lo, hi)

\* synthesize_scores: the set of packs the call can return (one pack, unless
\* a value that is rounded is exactly half way between two integers)
synthesize_scores(base_score, tara_mods, gochara_mods, rules) ==
    LET clamp_cfg == Get(rules, "clamp", DEFAULT_clamp)
        lo == Get(clamp_cfg, "min", RInt(5))
        hi == Get(clamp_cfg, "max", RInt(99))
        model_cfg == Get(rules, "score_model", DEFAULT_score_model)
        daily_base == Get(model_cfg, "daily_dynamic_baseline", RInt(70))
        gochara_amp == Get(model_cfg, "gochara_amplifier", RInt(2))
        w == blend_weights(Get(model_cfg, "dasha_weight", <<4, 10>>),
                           Get(model_cfg, "daily_dynamic_weight", <<6, 10>>))
        dasha_w == w[1]
        daily_w == w[2]
        m_tara(dim) == Get(tara_mods, dim, RInt(1))
        m_gochara(dim) == Get(gochara_mods, dim, RInt(0))
        dasha_component == RInt(base_score)
        m_gochara_amplified(dim) == RMul(m_gochara(dim), gochara_amp)
        daily_dynamic_component(dim) ==
            RMul(RMul(daily_base, m_tara(dim)), RAdd(RInt(1), m_gochara_amplified(dim)))
        raw(dim) ==
            RAdd(RMul(dasha_component, dasha_w), RMul(daily_dynamic_component(dim), daily_w))
        tie_dims ==
            { dim \in DimensionSet : Cardinality(clamp_round_outcomes(raw(dim), lo, hi)) = 2 }
        dim_scores(up) ==
            [dim \in DimensionSet |->
                IF dim \in tie_dims
                THEN Floor(raw(dim)) + (IF dim \in up THEN 1 ELSE 0)
                ELSE CHOOSE n \in clamp_round_outcomes(raw(dim), lo, hi) : TRUE]
        pack(scores, total) ==
            [dimensions |-> scores,
             total_index |-> total,
             dimension_breakdown |->
                [dim \in DimensionSet |->
                    [dasha_component |-> dasha_component,
                     daily_dynamic_component |-> daily_dynamic_component(dim),
                     tara_modifier |-> m_tara(dim),
                     gochara_modifier |-> m_gochara(dim),
                     gochara_modifier_amplified |-> m_gochara_amplified(dim),
                     raw_before_clamp |-> raw(dim)]],
             score_model |->
                [dasha_weight |-> dasha_w,
                 daily_dynamic_weight |-> daily_w,
                 daily_dynamic_baseline |-> daily_base,
                 gochara_amplifier |-> gochara_amp]]
    IN  UNION { { pack(dim_scores(up), total) :
                    total \in total_index_of(dim_scores(up), lo, hi) } :
                up \in SUBSET tie_dims }

\* DEFAULT_RULES["tara_bala_modifiers"]: per label, the multipliers of
\* emotion, wealth, career, social, vitality, in tenths
DEFAULT_tara_bala_tenths ==
    [l \in TaraLabels |->
        CASE l = "Janma"       -> <<9, 10, 10, 10, 8>>
          [] l = "Sampat"      -> <<11, 13, 12, 11, 10>>
          [] l = "Vipat"       -> <<8, 9, 7, 8, 9>>
          [] l = "Kshem"       -> <<12, 11, 11, 10, 12>>
          [] l = "Pratyari"    -> <<7, 10, 8, 6, 9>>
          [] l = "Sadhana"     -> <<11, 12, 13, 11, 10>>
          [] l = "Naidhana"    -> <<5, 8, 9, 7, 5>>
          [] l = "Mitra"       -> <<11, 10, 11, 13, 10>>
          [] l = "ParamaMitra" -> <<12, 11, 12, 14, 11>>]

DimIndex(dim) == CHOOSE i \in 1..Len(DIMENSIONS) : DIMENSIONS[i] = dim

DEFAULT_tara_bala_modifiers ==
    [l \in TaraLabels |->
        [dim \in DimensionSet |-> Rat(DEFAULT_tara_bala_tenths[l][DimIndex(dim)], 10)]]

-----------------------------------------------------------------------------
(* Calls of synthesize_scores                                              *)

\* Base scores: values of a dasha_relative_matrix (the built-in 60..95, and
\* catalog values below and above the clamp range)
SynthBaseScores == {0, 60, 95, 250}

\* Multiplier sets: rows of the built-in table, and a dict with no dimension
SynthTaraMods ==
    { DEFAULT_tara_bala_modifiers[l] : l \in {"Janma", "Naidhana", "ParamaMitra"} }
        \cup { EmptyDict }

\* Gochara modifier sets: no entry, a mixed set, all positive, all negative,
\* and a set with one dominant dimension
SynthGocharaMods ==
    { EmptyDict,
      [dim \in DimensionSet |->
          CASE dim = "emotion" -> <<7, 50>>
            [] dim = "wealth" -> <<-1, 10>>
            [] dim = "career" -> <<3, 20>>
            [] dim = "social" -> RInt(0)
            [] dim = "vitality" -> <<1, 25>>],
      [dim \in DimensionSet |-> <<3, 10>>],
      [dim \in DimensionSet |-> <<-3, 4>>],
      [dim \in {"career"} |-> <<1, 2>>] }

\* clamp tables: built-in, whole-number bounds, bounds that are not whole
\* numbers, a single key, and min above max
SynthClampTables ==
    { [min |-> RInt(5), max |-> RInt(99)],
      [min |-> RInt(40), max |-> RInt(60)],
      [min |-> <<11, 2>>, max |-> <<199, 2>>],
      [min |-> <<63, 10>>, max |-> <<637, 10>>],
      [max |-> RInt(50)],
      [min |-> RInt(90), max |-> RInt(10)] }

\* score_model tables: sums of the two weights above 1, equal to 1, zero and
\* negative; missing keys
SynthScoreModels ==
    { [dasha_weight |-> RInt(1), daily_dynamic_weight |-> RInt(1)],
      [dasha_weight |-> <<3, 10>>, daily_dynamic_weight |-> <<7, 10>>,
       daily_dynamic_baseline |-> RInt(50), gochara_amplifier |-> <<3, 2>>],
      [dasha_weight |-> RInt(0), daily_dynamic_weight |-> RInt(0)],
      [dasha_weight |-> RInt(-1), daily_dynamic_weight |-> <<1, 2>>],
      [daily_dynamic_weight |-> <<9, 10>>],
      [dasha_weight |-> <<1, 5>>, daily_dynamic_weight |-> <<1, 5>>] }

\* Rule catalogs as far as synthesize_scores reads them: each of the keys
\* clamp and score_model absent or set to one of the tables
SynthCatalogs ==
    { [k \in K |-> IF k = "clamp" THEN c ELSE m] :
        K \in SUBSET {"clamp", "score_model"},
        c \in SynthClampTables,
        m \in SynthScoreModels }

InitSynth ==
    /\ fn = "synthesize_scores"
    /\ args \in [base_score : SynthBaseScores,
                 tara_mods : SynthTaraMods,
                 gochara_mods : SynthGocharaMods,
                 rules : SynthCatalogs]
    /\ pc = "call"
    /\ ret = Pending
    /\ LoaderUnused
    /\ StoreUnused

CallSynth ==
    /\ fn = "synthesize_scores"
    /\ pc = "call"
    /\ \E pack \in synthesize_scores(args.base_score, args.tara_mods,
                                      args.gochara_mods, args.rules) :
            ret' = Ok(pack)
    /\ pc' = "return"
    /\ UNCHANGED <<fn, args, cache, reads, data, uploads, profiles>>

NextSynth == CallSynth

SpecSynth == InitSynth /\ [][NextSynth]_vars

-----------------------------------------------------------------------------
(* Claims about synthesize_scores                                          *)

SynthReturned == fn = "synthesize_scores" /\ pc = "return"

REq(a, b) == a[1] * b[2] = b[1] * a[2]

IsWhole(a) == a[1] % a[2] = 0

\* The clamp bounds and the configured blend weights as the specification
\* gives them: the catalog's value, else the default (5..99, 0.4 / 0.6)
StatedClamp(rules, key) ==
    LET compiled == [min |-> RInt(5), max |-> RInt(99)]
    IN  IF "clamp" \in DOMAIN rules /\ key \in DOMAIN rules["clamp"]
        THEN rules["clamp"][key]
        ELSE compiled[key]

StatedWeight(rules, key) ==
    LET compiled == [dasha_weight |-> <<4, 10>>, daily_dynamic_weight |-> <<6, 10>>]
    IN  IF "score_model" \in DOMAIN rules /\ key \in DOMAIN rules["score_model"]
        THEN rules["score_model"][key]
        ELSE compiled[key]

\* The six scores of a returned pack: five dimension scores and the total
ScoresOf(pack) == { pack.dimensions[dim] : dim \in DimensionSet } \cup { pack.total_index }

\* C5 as stated: for every catalog whose clamp bounds satisfy min <= max, each
\* of the five dimension scores and the total index is an integer in
\* [min, max].
C5_ScoresWithinClamp ==
    (SynthReturned /\ RLe(StatedClamp(args.rules, "min"), StatedClamp(args.rules, "max"))) =>
        \A score \in ScoresOf(ret.val) :
            /\ score \in Int
            /\ RLe(StatedClamp(args.rules, "min"), RInt(score))
            /\ RLe(RInt(score), StatedClamp(args.rules, "max"))

\* C5 as amended: for every catalog whose clamp bounds satisfy min <= max, each
\* of the five dimension scores and the total index is an integer in
\* [min - 1/2, max + 1/2] (the value is clamped first and rounded after), and
\* so in [min, max] when min and max are whole numbers.
C5_ScoresWithinRoundedClamp ==
    (SynthReturned /\ RLe(StatedClamp(args.rules, "min"), StatedClamp(args.rules, "max"))) =>
        \A score \in ScoresOf(ret.val) :
            /\ score \in Int
            /\ RLe(RSub(StatedClamp(args.rules, "min"), <<1, 2>>), RInt(score))
            /\ RLe(RInt(score), RAdd(StatedClamp(args.rules, "max"), <<1, 2>>))
            /\ (IsWhole(StatedClamp(args.rules, "min")) => 
                    RLe(StatedClamp(args.rules, "min"), RInt(score)))
            /\ (IsWhole(StatedClamp(args.rules, "max")) =>
                    RLe(RInt(score), StatedClamp(args.rules, "max")))

\* A call under the bounds 5.5 .. 99.5 in which a dimension's raw value,
\* 100.8, is clamped to 99.5 and then rounded to 100: above max, within 1/2.
C5_Witness ==
    /\ SynthReturned
    /\ "clamp" \in DOMAIN args.rules
    /\ args.rules["clamp"] = [min |-> <<11, 2>>, max |-> <<199, 2>>]
    /\ \E dim \in DimensionSet :
        /\ REq(ret.val.dimension_breakdown[dim].raw_before_clamp, <<504, 5>>)
        /\ ret.val.dimensions[dim] = 100

\* C6: the effective blend weights sum to 1; they are the configured weights
\* divided by their sum when that sum is > 0 and 0.4 / 0.6 when it is <= 0;
\* and they are the weights of raw = dashaComponent * dashaWeight +
\* dailyComponent * dailyWeight.
C6_BlendWeights ==
    SynthReturned =>
        LET cfg_d == StatedWeight(args.rules, "dasha_weight")
            cfg_y == StatedWeight(args.rules, "daily_dynamic_weight")
            cfg_sum == RAdd(cfg_d, cfg_y)
            eff_d == ret.val.score_model.dasha_weight
            eff_y == ret.val.score_model.daily_dynamic_weight
        IN  /\ REq(RAdd(eff_d, eff_y), RInt(1))
            /\ (RLt(RInt(0), cfg_sum) =>
                    /\ REq(RMul(eff_d, cfg_sum), cfg_d)
                    /\ REq(RMul(eff_y, cfg_sum), cfg_y))
            /\ (RLe(cfg_sum, RInt(0)) =>
                    /\ REq(eff_d, <<4, 10>>)
                    /\ REq(eff_y, <<6, 10>>))
            /\ \A dim \in DimensionSet :
                    LET b == ret.val.dimension_breakdown[dim]
                    IN  REq(b.raw_before_clamp,
                            RAdd(RMul(RInt(args.base_score), eff_d),
                                 RMul(b.daily_dynamic_component, eff_y)))

\* Configured weights 1 and 1 (sum 2): each effective weight is 1/2.
C6_Witness ==
    /\ SynthReturned
    /\ "score_model" \in DOMAIN args.rules
    /\ args.rules["score_model"] = [dasha_weight |-> RInt(1), daily_dynamic_weight |-> RInt(1)]
    /\ REq(ret.val.score_model.dasha_weight, <<1, 2>>)
    /\ REq(ret.val.score_model.daily_dynamic_weight, <<1, 2>>)

\* max and sum of the five returned dimension scores
MaxDimension(pack) ==
    CHOOSE m \in { pack.dimensions[dim] : dim \in DimensionSet } :
        \A dim \in DimensionSet : pack.dimensions[dim] <= m

SumDimensions(pack) ==
    pack.dimensions["emotion"] + pack.dimensions["wealth"] + pack.dimensions["career"]
        + pack.dimensions["social"] + pack.dimensions["vitality"]

\* max * 0.3 + mean * 0.7 = (15 * max + 7 * sum) / 50, clamped
BlendedTotal(pack, rules) ==
    clamp(Rat(15 * MaxDimension(pack) + 7 * SumDimensions(pack), 50),
          StatedClamp(rules, "min"), StatedClamp(rules, "max"))

\* C7: total_index is the integer nearest to
\* clamp(max(dimensionScores) * 0.3 + mean(dimensionScores) * 0.7, min, max),
\* taken over the returned (clamped and rounded) dimension scores.
C7_TotalIndex ==
    SynthReturned =>
        LET v == BlendedTotal(ret.val, args.rules)
            d == RSub(RInt(ret.val.total_index), v)
        IN  /\ ret.val.total_index \in Int
            /\ RLe(<<-1, 2>>, d)
            /\ RLe(d, <<1, 2>>)

\* Dimension scores that differ, a blend that is not a whole number and lies
\* strictly inside the clamp range: the total is below the maximum score.
C7_Witness ==
    /\ SynthReturned
    /\ LET v == BlendedTotal(ret.val, args.rules)
       IN  /\ ~IsWhole(v)
           /\ RLt(StatedClamp(args.rules, "min"), v)
           /\ RLt(v, StatedClamp(args.rules, "max"))
           /\ ret.val.total_index < MaxDimension(ret.val)
           /\ ret.val.total_index = RoundHalfEven(v)

-----------------------------------------------------------------------------
(* app/core/scoring.py: transit (gochara) scoring and obstruction (vedha)  *)
(*                                                                         *)
(* A dict whose order matters (feat["planet_rasi"], the planets of a       *)
(* dimension) is a sequence of <<key, value>> pairs in insertion order.    *)
(* A dict that may hold integer keys and string keys (house_scores) is a   *)
(* record [int |-> the integer-keyed part, str |-> the string-keyed part]. *)

\* None where an int is expected (Optional[int])
NoneInt == 0

\* None where a str is expected (Optional[str])
NoneStr == "None"

\* bool(s) of an Optional[str]
Truthy(s) == s # NoneStr /\ s # ""

\* str(house) for the house numbers
HouseStr == <<"1", "2", "3", "4", "5", "6", "7", "8", "9", "10", "11", "12">>

Str(house) == HouseStr[house]

\* dict.get(key, default) on a sequence of <<key, value>> pairs
ItemsGet(items, key, default) ==
    IF \E i \in 1..Len(items) : items[i][1] = key
    THEN items[CHOOSE i \in 1..Len(items) : items[i][1] = key][2]
    ELSE default

PLANET_ALIASES ==
    [name \in {"Sun", "Moon", "Mars", "Merc", "Mercury", "Jup", "Jupiter",
               "Ven", "Venus", "Sat", "Saturn"} |->
        CASE name = "Mercury" -> "Merc"
          [] name = "Jupiter" -> "Jup"
          [] name = "Venus" -> "Ven"
          [] name = "Saturn" -> "Sat"
          [] OTHER -> name]

DEFAULT_dual_lagna_weights ==
    [default |-> [lagna |-> <<5, 10>>, chandra |-> <<5, 10>>],
     career |-> [lagna |-> <<7, 10>>, chandra |-> <<3, 10>>],
     emotion |-> [lagna |-> <<3, 10>>, chandra |-> <<7, 10>>]]

DEFAULT_dimension_weights ==
    [emotion |-> [planets |-> << <<"Moon", <<4, 10>> >>, <<"Merc", <<2, 10>> >> >>],
     wealth |-> [planets |-> << <<"Jup", <<4, 10>> >>, <<"Ven", <<2, 10>> >> >>],
     career |-> [planets |-> << <<"Sun", <<3, 10>> >>, <<"Sat", <<3, 10>> >> >>],
     social |-> [planets |-> << <<"Ven", <<4, 10>> >>, <<"Merc", <<2, 10>> >> >>],
     vitality |-> [planets |-> << <<"Sun", <<4, 10>> >>, <<"Mars", <<2, 10>> >> >>]]

\* DEFAULT_RULES["gochara_rules"]["house_scores"], in hundredths, houses 1..12
DEFAULT_house_scores_hundredths == <<5, 10, 20, 10, 0, 20, 0, -25, 25, 20, 30, -15>>

DEFAULT_house_scores ==
    [int |-> [h \in 1..12 |-> Rat(DEFAULT_house_scores_hundredths[h], 100)],
     str |-> EmptyDict]

DEFAULT_vedha_rules ==
    [k \in {"3", "6", "11", "2", "4", "12"} |->
        CASE k = "3" -> [obstructor_house |-> 12, planet_scope |-> "all",
                          exceptions |-> << <<"Sun", "Sat">> >>]
          [] k = "6" -> [obstructor_house |-> 9, planet_scope |-> "all",
                          exceptions |-> << <<"Sun", "Sat">> >>]
          [] k = "11" -> [obstructor_house |-> 5, planet_scope |-> "all",
                           exceptions |-> <<>>]
          [] k = "2" -> [obstructor_house |-> 12, planet_scope |-> "venus_only",
                          exceptions |-> <<>>]
          [] k = "4" -> [obstructor_house |-> 10, planet_scope |-> "venus_only",
                          exceptions |-> <<>>]
          [] k = "12" -> [obstructor_house |-> 2, planet_scope |-> "venus_only",
                           exceptions |-> <<>>]]

DEFAULT_gochara_rules ==
    [house_scores |-> DEFAULT_house_scores, vedha_rules |-> DEFAULT_vedha_rules]

DEFAULT_status_rules ==
    [exalted |-> [Sun |-> "Ar", Moon |-> "Ta", Mars |-> "Cp", Merc |-> "Vi",
                  Jup |-> "Cn", Ven |-> "Pi", Sat |-> "Li"],
     own_signs |-> [Sun |-> <<"Le">>, Moon |-> <<"Cn">>, Mars |-> <<"Ar", "Sc">>,
                    Merc |-> <<"Ge", "Vi">>, Jup |-> <<"Sg", "Pi">>,
                    Ven |-> <<"Ta", "Li">>, Sat |-> <<"Cp", "Aq">>],
     debilitated |-> [Sun |-> "Li", Moon |-> "Sc", Mars |-> "Cn", Merc |-> "Pi",
                      Jup |-> "Cp", Ven |-> "Vi", Sat |-> "Ar"],
     retrograde_multiplier |-> [benefic |-> <<8, 10>>, malefic |-> <<12, 10>>],
     benefics |-> <<"Jup", "Ven", "Merc", "Moon">>,
     malefics |-> <<"Sun", "Mars", "Sat">>]

\* I18N_LABELS["VEDHA_OBSTRUCTION_TEMPLATES"]: the planets that have a
\* "strong" and a "weak" template
VEDHA_OBSTRUCTION_TEMPLATES == {"Sun", "Moon", "Mars", "Merc", "Jup", "Ven", "Sat"}

\* _normalize_planet_name(name) = PLANET_ALIASES.get((name or "").strip());
\* the names of the calls below carry no surrounding white space, which is
\* all that strip removes
_normalize_planet_name(name) ==
    IF name \in DOMAIN PLANET_ALIASES THEN PLANET_ALIASES[name] ELSE NoneStr

\* _dual_weights_for_dim(dim, rules) = (wl, wc)
_dual_weights_for_dim(dim, rules) ==
    LET cfg == Get(rules, "dual_lagna_weights", DEFAULT_dual_lagna_weights)
        dflt == Get(cfg, "default", [lagna |-> <<5, 10>>, chandra |-> <<5, 10>>])
        custom == Get(cfg, dim, EmptyDict)
        wl == Get(custom, "lagna", Get(dflt, "lagna", <<5, 10>>))
        wc == Get(custom, "chandra", Get(dflt, "chandra", <<5, 10>>))
    IN  <<wl, wc>>

\* mutant: a house is looked up under its integer key only
_house_score_integer_keys(house, house_scores) ==
    IF house = NoneInt THEN RInt(0)
    ELSE IF house \in DOMAIN house_scores.int THEN house_scores.int[house]
    ELSE RInt(0)

\* _house_score(house, house_scores): the integer key first, then str(house)
_house_score(house, house_scores) ==
    IF house = NoneInt THEN RInt(0)
    ELSE IF house \in DOMAIN house_scores.int THEN house_scores.int[house]
    ELSE IF Str(house) \in DOMAIN house_scores.str THEN house_scores.str[Str(house)]
    ELSE RInt(0)

\* _is_exception_pair(target, obstructor, exceptions)
_is_exception_pair(target, obstructor, exceptions) ==
    LET t == _normalize_planet_name(target)
        o == _normalize_planet_name(obstructor)
    IN  IF t = NoneStr \/ o = NoneStr THEN FALSE
        ELSE \E i \in 1..Len(exceptions) :
                /\ Len(exceptions[i]) = 2
                /\ LET a == _normalize_planet_name(exceptions[i][1])
                       b == _normalize_planet_name(exceptions[i][2])
                   IN  /\ a # NoneStr
                       /\ b # NoneStr
                       /\ {t, o} = {a, b}

\* What _vedha_hit returns when there is no obstruction: (False, None)
NoVedha == [hit |-> FALSE, obstructor |-> NoneStr,
            obstructor_house |-> NoneInt, target_house |-> NoneInt]

\* _vedha_hit with the scan of the transit planets ended by the first
\* planet found in the obstructing house, eligible or not
_vedha_hit_first_in_house(target_planet, target_house, base_rasi, transit_planets, vedha_rules) ==
    IF target_house = NoneInt \/ base_rasi = NoneStr THEN NoVedha
    ELSE IF Str(target_house) \notin DOMAIN vedha_rules THEN NoVedha
    ELSE
        LET rule == vedha_rules[Str(target_house)]
            obstructor_house == Get(rule, "obstructor_house", -1)
            inHouse(i) ==
                LET h == house_from_lagna_and_moon(base_rasi, transit_planets[i][2])
                IN  h.exc = "" /\ h.val = obstructor_house
            first == CHOOSE i \in 1..Len(transit_planets) :
                        inHouse(i) /\ \A j \in 1..(i - 1) : ~inHouse(j)
            obs_n == _normalize_planet_name(transit_planets[first][1])
        IN  IF Get(rule, "planet_scope", "all") = "venus_only"
                    /\ _normalize_planet_name(target_planet) # "Ven"
            THEN NoVedha
            ELSE IF ~(\E i \in 1..Len(transit_planets) : inHouse(i)) THEN NoVedha
            ELSE IF \/ obs_n \in {NoneStr, "Moon", "Rah", "Ket"}
                    \/ obs_n = _normalize_planet_name(target_planet)
                    \/ _is_exception_pair(target_planet, obs_n, Get(rule, "exceptions", <<>>))
            THEN NoVedha
            ELSE [hit |-> TRUE, obstructor |-> obs_n,
                  obstructor_house |-> obstructor_house, target_house |-> target_house]

\* mutant: the loop of _vedha_hit without its filters on the obstructor's
\* name (the Moon, the nodes, the target itself)
RECURSIVE vedha_scan_any_planet(_, _, _, _, _, _)
vedha_scan_any_planet(i, target_planet, target_house, base_rasi, transit_planets, rule) ==
    IF i > Len(transit_planets) THEN NoVedha
    ELSE IF _normalize_planet_name(transit_planets[i][1]) = NoneStr
    THEN vedha_scan_any_planet(i + 1, target_planet, target_house, base_rasi,
                               transit_planets, rule)
    ELSE IF house_from_lagna_and_moon(base_rasi, transit_planets[i][2])
                # Ok(Get(rule, "obstructor_house", -1))
    THEN vedha_scan_any_planet(i + 1, target_planet, target_house, base_rasi,
                               transit_planets, rule)
    ELSE [hit |-> TRUE,
          obstructor |-> _normalize_planet_name(transit_planets[i][1]),
          obstructor_house |-> Get(rule, "obstructor_house", -1),
          target_house |-> target_house]

\* The for loop of _vedha_hit from the i-th transit planet on: the first
\* planet that passes every filter is the obstructor
RECURSIVE vedha_scan(_, _, _, _, _, _)
vedha_scan(i, target_planet, target_house, base_rasi, transit_planets, rule) ==
    IF i > Len(transit_planets) THEN NoVedha
    ELSE IF _normalize_planet_name(transit_planets[i][1])
                \in {NoneStr, "Moon", "Rah", "Ket", _normalize_planet_name(target_planet)}
    THEN vedha_scan(i + 1, target_planet, target_house, base_rasi, transit_planets, rule)
    ELSE IF house_from_lagna_and_moon(base_rasi, transit_planets[i][2])
                # Ok(Get(rule, "obstructor_house", -1))
    THEN vedha_scan(i + 1, target_planet, target_house, base_rasi, transit_planets, rule)
    ELSE IF _is_exception_pair(target_planet, _normalize_planet_name(transit_planets[i][1]),
                               Get(rule, "exceptions", <<>>))
    THEN vedha_scan(i + 1, target_planet, target_house, base_rasi, transit_planets, rule)
    ELSE [hit |-> TRUE,
          obstructor |-> _normalize_planet_name(transit_planets[i][1]),
          obstructor_house |-> Get(rule, "obstructor_house", -1),
          target_house |-> target_house]

\* _vedha_hit(target_planet, target_house, base_rasi, transit_planets,
\* vedha_rules) = (hit, detail): the rule is looked up under str(target_house)
\* and the transit planets are scanned in dict order
_vedha_hit(target_planet, target_house, base_rasi, transit_planets, vedha_rules) ==
    IF target_house = NoneInt \/ base_rasi = NoneStr THEN NoVedha
    ELSE IF Str(target_house) \notin DOMAIN vedha_rules THEN NoVedha
    ELSE IF Get(vedha_rules[Str(target_house)], "planet_scope", "all") = "venus_only"
                /\ _normalize_planet_name(target_planet) # "Ven"
    THEN NoVedha
    ELSE vedha_scan(1, target_planet, target_house, base_rasi, transit_planets,
                    vedha_rules[Str(target_house)])

\* set(list)
ListSet(list) == { list[i] : i \in 1..Len(list) }

\* mutant: the exaltation sign is looked at before the debilitation sign
_status_multiplier_exalted_first(planet, transit_rasi, is_retrograde, rules) ==
    LET cfg == Get(rules, "status_rules", DEFAULT_status_rules)
        n == _normalize_planet_name(planet)
        p == IF Truthy(n) THEN n ELSE planet
        retro == Get(cfg, "retrograde_multiplier",
                     [benefic |-> <<8, 10>>, malefic |-> <<12, 10>>])
        is_exalted == Get(Get(cfg, "exalted", EmptyDict), p, NoneStr) = transit_rasi
        is_own == transit_rasi \in ListSet(Get(Get(cfg, "own_signs", EmptyDict), p, <<>>))
        is_debilitated == Get(Get(cfg, "debilitated", EmptyDict), p, NoneStr) = transit_rasi
        m0 == IF is_exalted THEN Rat(125, 100)
              ELSE IF is_debilitated THEN Rat(60, 100)
              ELSE IF is_own THEN Rat(110, 100)
              ELSE RInt(1)
        m == IF ~is_retrograde THEN m0
             ELSE IF p \in ListSet(Get(cfg, "benefics", <<>>))
             THEN RMul(m0, Get(retro, "benefic", <<8, 10>>))
             ELSE IF p \in ListSet(Get(cfg, "malefics", <<>>))
             THEN RMul(m0, Get(retro, "malefic", <<12, 10>>))
             ELSE m0
    IN  [m |-> m,
         pack |-> [is_exalted |-> is_exalted,
                   is_own_sign |-> is_own,
                   is_debilitated |-> is_debilitated,
                   is_retrograde |-> is_retrograde,
                   status_multiplier |-> m]]

\* _status_multiplier(planet, transit_rasi, is_retrograde, rules) = (m, pack)
_status_multiplier(planet, transit_rasi, is_retrograde, rules) ==
    LET cfg == Get(rules, "status_rules", DEFAULT_status_rules)
        n == _normalize_planet_name(planet)
        p == IF Truthy(n) THEN n ELSE planet
        exalted == Get(cfg, "exalted", EmptyDict)
        own_signs == Get(cfg, "own_signs", EmptyDict)
        debilitated == Get(cfg, "debilitated", EmptyDict)
        retro == Get(cfg, "retrograde_multiplier",
                     [benefic |-> <<8, 10>>, malefic |-> <<12, 10>>])
        benefics == ListSet(Get(cfg, "benefics", <<>>))
        malefics == ListSet(Get(cfg, "malefics", <<>>))
        is_exalted == Get(exalted, p, NoneStr) = transit_rasi
        is_own == transit_rasi \in ListSet(Get(own_signs, p, <<>>))
        is_debilitated == Get(debilitated, p, NoneStr) = transit_rasi
        m0 == IF is_debilitated THEN Rat(60, 100)
              ELSE IF is_exalted THEN Rat(125, 100)
              ELSE IF is_own THEN Rat(110, 100)
              ELSE RInt(1)
        m == IF ~is_retrograde THEN m0
             ELSE IF p \in benefics THEN RMul(m0, Get(retro, "benefic", <<8, 10>>))
             ELSE IF p \in malefics THEN RMul(m0, Get(retro, "malefic", <<12, 10>>))
             ELSE m0
    IN  [m |-> m,
         pack |-> [is_exalted |-> is_exalted,
                   is_own_sign |-> is_own,
                   is_debilitated |-> is_debilitated,
                   is_retrograde |-> is_retrograde,
                   status_multiplier |-> m]]

\* _planet_status_label(status_pack): the labels that are joined with " / ",
\* named by their keys in PLANET_STATUS_LABELS; "steady" is the text returned
\* when there is none
_planet_status_label(status_pack) ==
    LET dignity == IF status_pack.is_debilitated THEN <<"debilitated">>
                   ELSE IF status_pack.is_exalted THEN <<"exalted">>
                   ELSE <<>>
        labels == IF status_pack.is_retrograde
                  THEN dignity \o <<"retrograde">>
                  ELSE dignity
    IN  IF labels = <<>> THEN <<"steady">> ELSE labels

\* _get_obstruction_message(target_planet, obstructor, is_strong): the
\* template of the target planet and strength, else the generic sentence
\* that names the target and, when strong, the obstructor
_get_obstruction_message(target_planet, obstructor, is_strong) ==
    LET strength == IF is_strong THEN "strong" ELSE "weak"
    IN  IF target_planet \in VEDHA_OBSTRUCTION_TEMPLATES
        THEN <<"template", target_planet, strength>>
        ELSE IF is_strong
        THEN <<"generic", "strong", target_planet, obstructor>>
        ELSE <<"generic", "weak", target_planet>>

\* The locals that compute_gochara_v2 sets before its loops
gochara_lagna_rasi(parsed_profile) == Get(parsed_profile, "lagna_rasi", NoneStr)

gochara_natal_moon_rasi(parsed_profile) ==
    IF Get(parsed_profile, "natal_moon_rasi", NoneStr) # NoneStr
    THEN parsed_profile["natal_moon_rasi"]
    ELSE ItemsGet(Get(parsed_profile, "planet_rasi", <<>>), "Moon", NoneStr)

gochara_transit_planets(feat) == Get(feat, "planet_rasi", <<>>)

gochara_moon_rasi(feat) ==
    ItemsGet(gochara_transit_planets(feat), "Moon", Get(feat, "moon_rasi", NoneStr))

gochara_moon_house(parsed_profile, feat) ==
    IF Truthy(gochara_lagna_rasi(parsed_profile)) /\ Truthy(gochara_moon_rasi(feat))
    THEN house_from_lagna_and_moon(gochara_lagna_rasi(parsed_profile), gochara_moon_rasi(feat))
    ELSE Ok(NoneInt)

gochara_planets(dim, rules) ==
    Get(Get(Get(rules, "dimension_weights", DEFAULT_dimension_weights), dim, EmptyDict),
        "planets", <<>>)

\* mutant: an obstruction zeroes the blended score whatever its sign
gochara_planet_pass_any_sign(dim, p_name, p_weight, parsed_profile, feat, rules) ==
    LET lagna_rasi == gochara_lagna_rasi(parsed_profile)
        natal_moon_rasi == gochara_natal_moon_rasi(parsed_profile)
        transit_planets == gochara_transit_planets(feat)
        transit_motion == Get(feat, "planet_status", EmptyDict)
        gochara == Get(rules, "gochara_rules", DEFAULT_gochara_rules)
        house_scores == Get(gochara, "house_scores", DEFAULT_house_scores)
        vedha_rules == Get(gochara, "vedha_rules", DEFAULT_vedha_rules)
        w_l == _dual_weights_for_dim(dim, rules)[1]
        w_c == _dual_weights_for_dim(dim, rules)[2]
        p == _normalize_planet_name(p_name)
        transit_rasi == ItemsGet(transit_planets, p, NoneStr)
        hl == IF Truthy(lagna_rasi)
              THEN house_from_lagna_and_moon(lagna_rasi, transit_rasi)
              ELSE Ok(NoneInt)
        hc == IF Truthy(natal_moon_rasi)
              THEN house_from_lagna_and_moon(natal_moon_rasi, transit_rasi)
              ELSE Ok(NoneInt)
        h_l == hl.val
        h_c == hc.val
        s_l == _house_score(h_l, house_scores)
        s_c == _house_score(h_c, house_scores)
        s_blended == RAdd(RMul(s_l, w_l), RMul(s_c, w_c))
        hit_l == _vedha_hit(p, h_l, lagna_rasi, transit_planets, vedha_rules)
        hit_c == _vedha_hit(p, h_c, natal_moon_rasi, transit_planets, vedha_rules)
        vedha_hit == hit_l.hit \/ hit_c.hit
        vedha_by == IF hit_l.hit THEN hit_l.obstructor
                    ELSE IF hit_c.hit THEN hit_c.obstructor
                    ELSE NoneStr
        vedha_basis == (IF hit_l.hit THEN <<"lagna">> ELSE <<>>)
                        \o (IF hit_c.hit THEN <<"chandra">> ELSE <<>>)
        suppressed == vedha_hit
        s_raw == IF suppressed THEN RInt(0) ELSE s_blended
        is_retro == Get(Get(transit_motion, p, EmptyDict), "is_retrograde", FALSE)
        status == _status_multiplier(p, transit_rasi, is_retro, rules)
        s_final == RMul(s_raw, status.m)
    IN  IF p = NoneStr THEN [kind |-> "skip"]
        ELSE IF transit_rasi = NoneStr THEN [kind |-> "skip"]
        ELSE IF hl.exc # "" THEN [kind |-> "raise", exc |-> hl.exc]
        ELSE IF hc.exc # "" THEN [kind |-> "raise", exc |-> hc.exc]
        ELSE [kind |-> "done",
              dimension |-> dim,
              planet |-> p,
              w |-> p_weight,
              transit_rasi |-> transit_rasi,
              house_lagna |-> h_l,
              house_chandra |-> h_c,
              lagna_score |-> s_l,
              chandra_score |-> s_c,
              s_blended |-> s_blended,
              s_raw |-> s_raw,
              status_multiplier |-> status.m,
              s_final |-> s_final,
              vedha |-> [is_obstructed |-> vedha_hit,
                         obstructor |-> vedha_by,
                         basis |-> vedha_basis],
              recorded |-> suppressed /\ Truthy(vedha_by),
              status |-> status.pack,
              status_label |-> _planet_status_label(status.pack)]

\* One pass of the planet loop of compute_gochara_v2 for (p_name, p_weight)
\* of dimension dim: kind "skip" for a continue, "raise" when a house
\* computation raises, "done" with the locals of the pass otherwise
gochara_planet_pass(dim, p_name, p_weight, parsed_profile, feat, rules) ==
    LET lagna_rasi == gochara_lagna_rasi(parsed_profile)
        natal_moon_rasi == gochara_natal_moon_rasi(parsed_profile)
        transit_planets == gochara_transit_planets(feat)
        transit_motion == Get(feat, "planet_status", EmptyDict)
        gochara == Get(rules, "gochara_rules", DEFAULT_gochara_rules)
        house_scores == Get(gochara, "house_scores", DEFAULT_house_scores)
        vedha_rules == Get(gochara, "vedha_rules", DEFAULT_vedha_rules)
        w_l == _dual_weights_for_dim(dim, rules)[1]
        w_c == _dual_weights_for_dim(dim, rules)[2]
        p == _normalize_planet_name(p_name)
        transit_rasi == ItemsGet(transit_planets, p, NoneStr)
        hl == IF Truthy(lagna_rasi)
              THEN house_from_lagna_and_moon(lagna_rasi, transit_rasi)
              ELSE Ok(NoneInt)
        hc == IF Truthy(natal_moon_rasi)
              THEN house_from_lagna_and_moon(natal_moon_rasi, transit_rasi)
              ELSE Ok(NoneInt)
        h_l == hl.val
        h_c == hc.val
        s_l == _house_score(h_l, house_scores)
        s_c == _house_score(h_c, house_scores)
        s_blended == RAdd(RMul(s_l, w_l), RMul(s_c, w_c))
        hit_l == _vedha_hit(p, h_l, lagna_rasi, transit_planets, vedha_rules)
        hit_c == _vedha_hit(p, h_c, natal_moon_rasi, transit_planets, vedha_rules)
        vedha_hit == hit_l.hit \/ hit_c.hit
        vedha_by == IF hit_l.hit THEN hit_l.obstructor
                    ELSE IF hit_c.hit THEN hit_c.obstructor
                    ELSE NoneStr
        vedha_basis == (IF hit_l.hit THEN <<"lagna">> ELSE <<>>)
                        \o (IF hit_c.hit THEN <<"chandra">> ELSE <<>>)
        suppressed == vedha_hit /\ RLt(RInt(0), s_blended)
        s_raw == IF suppressed THEN RInt(0) ELSE s_blended
        is_retro == Get(Get(transit_motion, p, EmptyDict), "is_retrograde", FALSE)
        status == _status_multiplier(p, transit_rasi, is_retro, rules)
        s_final == RMul(s_raw, status.m)
    IN  IF p = NoneStr THEN [kind |-> "skip"]
        ELSE IF transit_rasi = NoneStr THEN [kind |-> "skip"]
        ELSE IF hl.exc # "" THEN [kind |-> "raise", exc |-> hl.exc]
        ELSE IF hc.exc # "" THEN [kind |-> "raise", exc |-> hc.exc]
        ELSE [kind |-> "done",
              dimension |-> dim,
              planet |-> p,
              w |-> p_weight,
              transit_rasi |-> transit_rasi,
              house_lagna |-> h_l,
              house_chandra |-> h_c,
              lagna_score |-> s_l,
              chandra_score |-> s_c,
              s_blended |-> s_blended,
              s_raw |-> s_raw,
              status_multiplier |-> status.m,
              s_final |-> s_final,
              vedha |-> [is_obstructed |-> vedha_hit,
                         obstructor |-> vedha_by,
                         basis |-> vedha_basis],
              recorded |-> suppressed /\ Truthy(vedha_by),
              status |-> status.pack,
              status_label |-> _planet_status_label(status.pack)]

\* The passes of one dimension, in the order of planets.items()
gochara_dim_passes(dim, parsed_profile, feat, rules) ==
    [j \in 1..Len(gochara_planets(dim, rules)) |->
        gochara_planet_pass(dim, gochara_planets(dim, rules)[j][1],
                            gochara_planets(dim, rules)[j][2],
                            parsed_profile, feat, rules)]

IsDone(pass) == pass.kind = "done"

\* The passes that reached the end of the loop body, in processing order:
\* dimension by dimension, planet by planet
gochara_passes(parsed_profile, feat, rules) ==
    LET done(dim) == SelectSeq(gochara_dim_passes(dim, parsed_profile, feat, rules), IsDone)
    IN  done(DIMENSIONS[1]) \o done(DIMENSIONS[2]) \o done(DIMENSIONS[3])
            \o done(DIMENSIONS[4]) \o done(DIMENSIONS[5])

\* Whether a house computation raises in some pass
gochara_raises(parsed_profile, feat, rules) ==
    \E dim \in DimensionSet :
        \E j \in 1..Len(gochara_planets(dim, rules)) :
            gochara_dim_passes(dim, parsed_profile, feat, rules)[j].kind = "raise"

\* sum of w * value over the passes of a sequence
RECURSIVE WeightedSum(_, _)
WeightedSum(passes, field) ==
    IF passes = <<>> THEN RInt(0)
    ELSE RAdd(RMul(Head(passes).w, Head(passes)[field]), WeightedSum(Tail(passes), field))

\* The pass kept in `dominant` after the planet loop: the first one of
\* greatest weight, a weight having to exceed the initial dominant_w = -1.0
gochara_dominant(passes) ==
    { i \in 1..Len(passes) :
        /\ RLt(RInt(-1), passes[i].w)
        /\ \A j \in 1..(i - 1) : RLt(passes[j].w, passes[i].w)
        /\ \A j \in (i + 1)..Len(passes) : RLe(passes[j].w, passes[i].w) }

\* The fields of a pass that the dominant-transit record carries (its display
\* texts are formatted from these and are not modelled)
DominantRecord(pass) ==
    [dimension |-> pass.dimension,
     planet |-> pass.planet,
     house_lagna |-> pass.house_lagna,
     house_chandra |-> pass.house_chandra,
     lagna_score |-> pass.lagna_score,
     chandra_score |-> pass.chandra_score,
     s_raw |-> pass.s_raw,
     status_multiplier |-> pass.status_multiplier,
     s_final |-> pass.s_final,
     vedha |-> pass.vedha,
     status |-> pass.status,
     status_label |-> pass.status_label]

\* The value a per-planet dict holds for planet p after the loops: that of
\* the last pass of p
LastPassOf(passes, p) ==
    passes[CHOOSE i \in 1..Len(passes) :
              /\ passes[i].planet = p
              /\ \A j \in (i + 1)..Len(passes) : passes[j].planet # p]

\* The dict compute_gochara_v2 returns after its loops made the given passes
\* (None is <<>> where a message is expected)
gochara_return(parsed_profile, feat, passes) ==
    LET ofDim(dim) == SelectSeq(passes, LAMBDA pass : pass.dimension = dim)
        dominants(dim) ==
            IF gochara_dominant(ofDim(dim)) = {} THEN <<>>
            ELSE << DominantRecord(ofDim(dim)[CHOOSE i \in gochara_dominant(ofDim(dim)) : TRUE]) >>
        obstruction_records == SelectSeq(passes, LAMBDA pass : pass.recorded)
        strong == SelectSeq(obstruction_records,
                            LAMBDA pass : "chandra" \in ListSet(pass.vedha.basis))
        tracked == { passes[i].planet : i \in 1..Len(passes) }
    IN          [lagna_rasi |-> gochara_lagna_rasi(parsed_profile),
                 natal_moon_rasi |-> gochara_natal_moon_rasi(parsed_profile),
                 moon_rasi |-> gochara_moon_rasi(feat),
                 moon_house |-> gochara_moon_house(parsed_profile, feat).val,
                 gochara_modifiers |->
                    [dim \in DimensionSet |-> WeightedSum(ofDim(dim), "s_final")],
                 lagna_view |->
                    [dim \in DimensionSet |-> WeightedSum(ofDim(dim), "lagna_score")],
                 chandra_view |->
                    [dim \in DimensionSet |-> WeightedSum(ofDim(dim), "chandra_score")],
                 key_transits |->
                    dominants(DIMENSIONS[1]) \o dominants(DIMENSIONS[2])
                        \o dominants(DIMENSIONS[3]) \o dominants(DIMENSIONS[4])
                        \o dominants(DIMENSIONS[5]),
                 transit_status |->
                    [p \in tracked |-> LastPassOf(passes, p).status],
                 vedha_impact |->
                    [p \in tracked |-> LastPassOf(passes, p).vedha],
                 chandra_gochara |->
                    [p \in tracked |->
                        [transit_rasi |-> LastPassOf(passes, p).transit_rasi,
                         house_from_natal_moon |-> LastPassOf(passes, p).house_chandra,
                         score |-> LastPassOf(passes, p).chandra_score]],
                 obstruction_message |->
                    IF strong = <<>> THEN <<>>
                    ELSE _get_obstruction_message(Head(strong).planet,
                                                  Head(strong).vedha.obstructor, TRUE)]

\* compute_gochara_v2(parsed_profile, feat, rules): exc and val are what the
\* call raises or returns; passes keeps, beside the returned dict, the locals
\* of the passes of the planet loop, which are made once
compute_gochara_v2(parsed_profile, feat, rules) ==
    IF gochara_moon_house(parsed_profile, feat).exc # ""
    THEN [exc |-> gochara_moon_house(parsed_profile, feat).exc, val |-> 0, passes |-> <<>>]
    ELSE IF gochara_raises(parsed_profile, feat, rules)
    THEN [exc |-> "ValueError", val |-> 0, passes |-> <<>>]
    ELSE CHOOSE r \in { [exc |-> "", val |-> gochara_return(parsed_profile, feat, passes),
                         passes |-> passes] :
                            passes \in { gochara_passes(parsed_profile, feat, rules) } } : TRUE

-----------------------------------------------------------------------------
(* Calls of compute_gochara_v2                                             *)

\* Parsed charts as far as compute_gochara_v2 reads them: ascendant Aries
\* with natal Moon Libra (given, or taken from the chart's planet rows, or
\* absent), and a chart with no ascendant
GocharaProfiles ==
    { [lagna_rasi |-> "Ar", natal_moon_rasi |-> "Li"],
      [lagna_rasi |-> "Ar", planet_rasi |-> << <<"Sun", "Cn">>, <<"Moon", "Li">> >>],
      [lagna_rasi |-> "Ar"],
      [natal_moon_rasi |-> "Ar"] }

\* The signs each planet is placed in.  Counted from Aries they are the
\* houses 2, 3, 5, 6, 9, 11 and 12 of the obstruction rules, counted from
\* Libra the houses 3, 5, 6, 8, 9, 11 and 12; "Xx" is no sign
GocharaTransitSigns ==
    [Sun |-> {"Ge", "Aq", "Pi"},
     Moon |-> {"Pi", "Ge"},
     Mars |-> {"Pi", "Le", "Xx"},
     Merc |-> {"Vi"},
     Jup |-> {"Aq", "Pi"},
     Ven |-> {"Ta", "Pi"},
     Sat |-> {"Pi", "Sg"}]

\* feat["planet_rasi"] as get_daily_features_swe builds it: the seven
\* planets in the order of planet_ids
GocharaPlacements ==
    { << <<"Sun", sun>>, <<"Moon", moon>>, <<"Mars", mars>>, <<"Merc", merc>>,
         <<"Jup", jup>>, <<"Ven", ven>>, <<"Sat", sat>> >> :
        sun \in GocharaTransitSigns["Sun"], moon \in GocharaTransitSigns["Moon"],
        mars \in GocharaTransitSigns["Mars"], merc \in GocharaTransitSigns["Merc"],
        jup \in GocharaTransitSigns["Jup"], ven \in GocharaTransitSigns["Ven"],
        sat \in GocharaTransitSigns["Sat"] }

\* Daily features: the seven placements alone; the placements after a node
\* in the twelfth sign, with retrograde flags; and features with no placement
GocharaFeatures ==
    { [planet_rasi |-> placed] : placed \in GocharaPlacements }
    \cup
    { [planet_rasi |-> << <<"Rah", "Pi">> >> \o placed,
       planet_status |-> [Sun |-> [is_retrograde |-> FALSE],
                          Jup |-> [is_retrograde |-> TRUE],
                          Sat |-> [is_retrograde |-> TRUE]]] :
        placed \in GocharaPlacements }
    \cup
    { [moon_rasi |-> "Ge"] }

\* A catalog that replaces the transit tables: house scores under integer and
\* string keys, rules with a missing scope, a missing exception list, alias
\* names and a malformed pair; dimensions with alias names, an unknown planet,
\* a weight of -1, no planets, or no entry
GocharaCustomCatalog ==
    [gochara_rules |->
        [house_scores |->
            [int |-> (3 :> <<1, 5>> @@ 11 :> <<3, 10>> @@ 12 :> <<-1, 10>>),
             str |-> ("6" :> <<1, 5>> @@ "2" :> <<1, 10>>)],
         vedha_rules |->
            ("11" :> [obstructor_house |-> 12,
                      exceptions |-> << <<"Jupiter", "Venus">>, <<"Sun">> >>]
             @@ "12" :> [obstructor_house |-> 11, planet_scope |-> "venus_only"])],
     dimension_weights |->
        [wealth |-> [planets |-> << <<"Jupiter", <<2, 5>> >>, <<"Venus", <<2, 5>> >>,
                                    <<"Pluto", <<1, 5>> >> >>],
         career |-> [planets |-> << <<"Sun", <<3, 10>> >>, <<"Saturn", RInt(-1)>> >>],
         social |-> EmptyDict],
     dual_lagna_weights |->
        [wealth |-> [lagna |-> <<1, 5>>, chandra |-> <<4, 5>>],
         default |-> [lagna |-> RInt(1)]]]

\* A catalog with an empty gochara_rules table (both tables fall back to the
\* built-in ones) and all the weight on the ascendant view
GocharaLagnaOnlyCatalog ==
    [gochara_rules |-> EmptyDict,
     dual_lagna_weights |-> [default |-> [lagna |-> RInt(1), chandra |-> RInt(0)]]]

\* A catalog whose planet weights are zero or negative: a dimension with
\* weights -1 and -2, one with two weights of -1/2, one with a weight of 0
GocharaNegativeCatalog ==
    [dimension_weights |->
        [emotion |-> [planets |-> << <<"Moon", RInt(-1)>>, <<"Mercury", RInt(-2)>> >>],
         career |-> [planets |-> << <<"Sun", <<-1, 2>> >>, <<"Sat", <<-1, 2>> >> >>],
         wealth |-> [planets |-> << <<"Jup", RInt(0)>> >>]]]

\* A catalog whose status table turns the score of a retrograde benefic
\* round: a retrograde factor of -1
GocharaRetroCatalog ==
    [status_rules |->
        [retrograde_multiplier |-> [benefic |-> RInt(-1), malefic |-> <<6, 5>>],
         benefics |-> <<"Jup", "Ven", "Merc", "Moon">>,
         malefics |-> <<"Sun", "Mars", "Sat">>]]

GocharaCatalogs ==
    { GocharaCustomCatalog, GocharaLagnaOnlyCatalog, GocharaNegativeCatalog,
      GocharaRetroCatalog }

\* The calls: every chart and every features under the built-in catalog; the
\* charts that give the natal Moon sign under the other catalogs
GocharaCalls ==
    [parsed_profile : GocharaProfiles, feat : GocharaFeatures, rules : {EmptyDict}]
    \cup
    [parsed_profile : { prof \in GocharaProfiles : "natal_moon_rasi" \in DOMAIN prof },
     feat : GocharaFeatures,
     rules : GocharaCatalogs]

InitGochara ==
    /\ fn = "compute_gochara_v2"
    /\ args \in GocharaCalls
    /\ pc = "call"
    /\ ret = Pending
    /\ LoaderUnused
    /\ StoreUnused

CallGochara ==
    /\ fn = "compute_gochara_v2"
    /\ pc = "call"
    /\ ret' = compute_gochara_v2(args.parsed_profile, args.feat, args.rules)
    /\ pc' = "return"
    /\ UNCHANGED <<fn, args, cache, reads, data, uploads, profiles>>

NextGochara == CallGochara

SpecGochara == InitGochara /\ [][NextGochara]_vars


-----------------------------------------------------------------------------
(* Claims about compute_gochara_v2                                         *)

GocharaReturned == fn = "compute_gochara_v2" /\ pc = "return" /\ ret.exc = ""

\* The house of a sign counted from a reference sign (the reference is 1)
StatedHouse(reference, sign) == ((SignIndex(sign) - SignIndex(reference)) % 12) + 1

\* The obstruction rules of a catalog: those it registers, by the house
\* number written as a decimal string, else the built-in ones
StatedVedhaRules(rules) ==
    IF "gochara_rules" \in DOMAIN rules /\ "vedha_rules" \in DOMAIN rules["gochara_rules"]
    THEN rules["gochara_rules"]["vedha_rules"]
    ELSE DEFAULT_vedha_rules

\* The reference sign of a view: the ascendant sign, or the natal Moon sign
\* (from the chart's planet rows when the chart does not give it)
StatedReference(view, parsed_profile) ==
    IF view = "lagna" THEN gochara_lagna_rasi(parsed_profile)
    ELSE gochara_natal_moon_rasi(parsed_profile)

\* The weight of a view in a dimension
StatedViewWeight(view, dim, rules) ==
    LET compiled == [lagna |-> <<1, 2>>, chandra |-> <<1, 2>>]
        table == IF "dual_lagna_weights" \in DOMAIN rules
                 THEN rules["dual_lagna_weights"]
                 ELSE DEFAULT_dual_lagna_weights
    IN  IF dim \in DOMAIN table /\ view \in DOMAIN table[dim] THEN table[dim][view]
        ELSE IF "default" \in DOMAIN table /\ view \in DOMAIN table["default"]
        THEN table["default"][view]
        ELSE compiled[view]

\* Planet P, placed in sign placed_in, is obstructed in a view: the rule
\* registered for P's house counted from the view's reference sign applies to
\* P, and some other transiting planet - not P, not the Moon, not a node, not
\* in an exception pair with P - is in the rule's obstructing house counted
\* from the same reference sign
ObstructedInView(P, placed_in, view, parsed_profile, feat, rules) ==
    LET reference == StatedReference(view, parsed_profile)
        vedha_rules == StatedVedhaRules(rules)
        transit == feat["planet_rasi"]
    IN  /\ reference \in Signs
        /\ placed_in \in Signs
        /\ Str(StatedHouse(reference, placed_in)) \in DOMAIN vedha_rules
        /\ LET rule == vedha_rules[Str(StatedHouse(reference, placed_in))]
               pairs == IF "exceptions" \in DOMAIN rule THEN rule["exceptions"] ELSE <<>>
               excepted(q) ==
                   \E i \in 1..Len(pairs) :
                       /\ Len(pairs[i]) = 2
                       /\ pairs[i][1] \in DOMAIN PLANET_ALIASES
                       /\ pairs[i][2] \in DOMAIN PLANET_ALIASES
                       /\ {PLANET_ALIASES[pairs[i][1]], PLANET_ALIASES[pairs[i][2]]} = {P, q}
           IN  /\ ("planet_scope" \in DOMAIN rule /\ rule["planet_scope"] = "venus_only")
                        => P = "Ven"
               /\ "obstructor_house" \in DOMAIN rule
               /\ \E i \in 1..Len(transit) :
                       /\ transit[i][1] \in DOMAIN PLANET_ALIASES
                       /\ PLANET_ALIASES[transit[i][1]] \notin {P, "Moon", "Rah", "Ket"}
                       /\ transit[i][2] \in Signs
                       /\ StatedHouse(reference, transit[i][2]) = rule["obstructor_house"]
                       /\ ~excepted(PLANET_ALIASES[transit[i][1]])

\* The blended house score of a pass: ascendant-view score x ascendant
\* weight + Moon-view score x Moon weight
BlendedScore(pass, rules) ==
    RAdd(RMul(pass.lagna_score, StatedViewWeight("lagna", pass.dimension, rules)),
         RMul(pass.chandra_score, StatedViewWeight("chandra", pass.dimension, rules)))

\* The passes of the planet loop to which obstruction suppression applies
SuppressionCase(k) ==
    /\ RLt(RInt(0), BlendedScore(ret.passes[k], args.rules))
    /\ \E view \in {"lagna", "chandra"} :
            ObstructedInView(ret.passes[k].planet, ret.passes[k].transit_rasi, view,
                             args.parsed_profile, args.feat, args.rules)

\* The sum of weight x final score over the passes of the dimension of pass
\* k other than pass k
OtherContributions(k) ==
    WeightedSum(SelectSeq(SubSeq(ret.passes, 1, k - 1) \o SubSeq(ret.passes, k + 1, Len(ret.passes)),
                          LAMBDA pass : pass.dimension = ret.passes[k].dimension),
                "s_final")

\* C2: for every dimension and every planet P of that dimension whose blended
\* house score is positive, if the obstruction rule registered for P's house
\* in a view applies to P and an eligible other transiting planet (not P, not
\* the Moon, not a node, not in an exception pair with P) occupies the rule's
\* obstructing house counted from that view's reference sign, then the
\* post-obstruction score is exactly 0, P is flagged obstructed, and P's final
\* score and its contribution to the dimension modifier are 0.
C2_ObstructionSuppression ==
    GocharaReturned =>
        \A k \in 1..Len(ret.passes) :
            SuppressionCase(k) =>
                /\ ret.passes[k].s_raw = RInt(0)
                /\ ret.passes[k].s_final = RInt(0)
                /\ RMul(ret.passes[k].w, ret.passes[k].s_final) = RInt(0)
                /\ ret.val.vedha_impact[ret.passes[k].planet].is_obstructed
                /\ REq(ret.val.gochara_modifiers[ret.passes[k].dimension], OtherContributions(k))
                /\ \A i \in 1..Len(ret.val.key_transits) :
                        (/\ ret.val.key_transits[i].dimension = ret.passes[k].dimension
                         /\ ret.val.key_transits[i].planet = ret.passes[k].planet)
                            => ret.val.key_transits[i].s_raw = RInt(0)

\* The built-in catalog, ascendant Aries: the Sun in Gemini (house 3, blended
\* score positive) while Pisces (house 12) holds the Moon, which is no
\* obstructor, Saturn, which is in an exception pair with the Sun, and
\* Jupiter, which obstructs: the Sun's career contribution is 0.
C2_Witness ==
    /\ GocharaReturned
    /\ args.rules = EmptyDict
    /\ args.parsed_profile = [lagna_rasi |-> "Ar", natal_moon_rasi |-> "Li"]
    /\ DOMAIN args.feat = {"planet_rasi"}
    /\ ItemsGet(args.feat["planet_rasi"], "Sun", NoneStr) = "Ge"
    /\ ItemsGet(args.feat["planet_rasi"], "Moon", NoneStr) = "Pi"
    /\ ItemsGet(args.feat["planet_rasi"], "Mars", NoneStr) = "Le"
    /\ ItemsGet(args.feat["planet_rasi"], "Jup", NoneStr) = "Pi"
    /\ ItemsGet(args.feat["planet_rasi"], "Sat", NoneStr) = "Pi"
    /\ \E k \in 1..Len(ret.passes) :
        /\ ret.passes[k].dimension = "career"
        /\ ret.passes[k].planet = "Sun"
        /\ SuppressionCase(k)
        /\ ret.passes[k].s_blended = <<43, 200>>
        /\ ret.passes[k].s_raw = RInt(0)
        /\ ret.passes[k].vedha.obstructor = "Jup"
        /\ ret.val.key_transits[3].planet = "Sun"
        /\ ret.val.key_transits[3].s_final = RInt(0)

\* ======================================================================
\* Dasha timeline lookup: jh_report_parser.get_current_dasha
\* ======================================================================
\* A timeline entry is <<maha, antar, start>>; a start date is its day
\* number, which keeps the only thing the lookup uses, the order of dates.
\* The timelines are the ones parse_vimsottari_timeline hands over: sorted
\* by start date and never empty.

MaxTimeline == 3
MaxDate == 4

NoPeriod == <<NoneStr, NoneStr>>

\* mutant: the loop stops at the first entry that has started
RECURSIVE dasha_scan_first_started(_, _, _, _)
dasha_scan_first_started(timeline, today, i, current) ==
  IF i > Len(timeline) THEN current
  ELSE IF timeline[i][3] <= today
       THEN <<timeline[i][1], timeline[i][2]>>
       ELSE current

\* for maha, antar, dt in timeline: if dt <= today: current = ... else: break
RECURSIVE dasha_scan(_, _, _, _)
dasha_scan(timeline, today, i, current) ==
  IF i > Len(timeline) THEN current
  ELSE IF timeline[i][3] <= today
       THEN dasha_scan(timeline, today, i + 1,
                       <<timeline[i][1], timeline[i][2]>>)
       ELSE current

get_current_dasha(timeline, today) ==
  LET current == dasha_scan(timeline, today, 1, NoPeriod)
  IN  IF current = NoPeriod
      THEN IF Len(timeline) = 0
           THEN Raise("IndexError", NoPeriod)
           ELSE Ok(<<timeline[1][1], timeline[1][2]>>)
      ELSE Ok(current)

DashaPeriods == { <<"Jup", "Sat">>, <<"Sat", "Merc">>, <<"Sat", "Ket">> }

DashaEntries ==
  { <<p[1], p[2], d>> : p \in DashaPeriods, d \in 1..MaxDate }

SortedByDate(timeline) ==
  \A i \in 1..(Len(timeline) - 1) : timeline[i][3] <= timeline[i + 1][3]

DashaTimelines ==
  { t \in UNION { [1..n -> DashaEntries] : n \in 1..MaxTimeline } :
      SortedByDate(t) }

DashaQueryDates == 0..(MaxDate + 1)

InitDasha ==
  /\ fn = "get_current_dasha"
  /\ args \in [timeline : DashaTimelines, today : DashaQueryDates]
  /\ pc = "call"
  /\ ret = Pending
  /\ LoaderUnused
  /\ StoreUnused

CallDasha ==
  /\ pc = "call"
  /\ fn = "get_current_dasha"
  /\ ret' = get_current_dasha(args.timeline, args.today)
  /\ pc' = "return"
  /\ UNCHANGED <<fn, args, cache, reads, data, uploads, profiles>>

NextDasha == CallDasha

SpecDasha == InitDasha /\ [][NextDasha]_vars

DashaReturned == fn = "get_current_dasha" /\ pc = "return"

\* positions of the entries that have started on the query date
StartedAt(timeline, today) ==
  { i \in 1..Len(timeline) : timeline[i][3] <= today }

LastStarted(timeline, today) ==
  CHOOSE i \in StartedAt(timeline, today) :
    \A j \in StartedAt(timeline, today) : j <= i

\* C11: on a timeline sorted by start date the lookup never raises; it
\* returns the (major, sub) of the last entry whose start date is on or
\* before the query date, and the first entry's pair when the query date
\* precedes every start date.
C11_CurrentDasha ==
  DashaReturned =>
    /\ ret.exc = ""
    /\ LET started == StartedAt(args.timeline, args.today)
           pick == IF started = {} THEN 1
                   ELSE LastStarted(args.timeline, args.today)
       IN  ret.val = <<args.timeline[pick][1], args.timeline[pick][2]>>

\* a query inside [d1, d2) of a three-entry timeline with a later period
\* already skipped: the d1 entry is neither the first nor the last one
C11_Witness ==
  /\ DashaReturned
  /\ Len(args.timeline) = 3
  /\ args.timeline[1][3] < args.timeline[2][3]
  /\ args.timeline[2][3] <= args.today
  /\ args.today < args.timeline[3][3]
  /\ ret = Ok(<<args.timeline[2][1], args.timeline[2][2]>>)
  /\ <<args.timeline[2][1], args.timeline[2][2]>>
       # <<args.timeline[1][1], args.timeline[1][2]>>

\* the fallback: the query date precedes every start date
C11_WitnessFallback ==
  /\ DashaReturned
  /\ \A i \in 1..Len(args.timeline) : args.today < args.timeline[i][3]
  /\ ret = Ok(<<args.timeline[1][1], args.timeline[1][2]>>)

\* ======================================================================
\* astrology_rules.clamp called on its own
\* ======================================================================
\* The bounds are drawn without any relation between them: lo < hi, lo = hi
\* and lo > hi all occur, and x lies below, between, on and above them.

ClampValues ==
  { RInt(-5), RInt(0), <<11, 2>>, RInt(5), RInt(50),
    RInt(99), <<199, 2>>, RInt(120) }

InitClamp ==
  /\ fn = "clamp"
  /\ args \in [x : ClampValues, lo : ClampValues, hi : ClampValues]
  /\ pc = "call"
  /\ ret = Pending
  /\ LoaderUnused
  /\ StoreUnused

CallClamp ==
  /\ pc = "call"
  /\ fn = "clamp"
  /\ ret' = Ok(clamp(args.x, args.lo, args.hi))
  /\ pc' = "return"
  /\ UNCHANGED <<fn, args, cache, reads, data, uploads, profiles>>

NextClamp == CallClamp

SpecClamp == InitClamp /\ [][NextClamp]_vars

ClampReturned == fn = "clamp" /\ pc = "return"

InInterval(v, lo, hi) == RLe(lo, v) /\ RLe(v, hi)

\* C12 as stated: for every x, lo and hi the value returned is in [lo, hi],
\* and it is x whenever lo <= x <= hi.
C12_ClampAnyBounds ==
  ClampReturned =>
    /\ InInterval(ret.val, args.lo, args.hi)
    /\ InInterval(args.x, args.lo, args.hi) => REq(ret.val, args.x)

\* C12 with the precondition the code needs: when lo <= hi the value
\* returned is in [lo, hi], and it is x whenever lo <= x <= hi; when
\* lo > hi the interval is empty and the value returned is lo.
C12_ClampOrderedBounds ==
  ClampReturned =>
    /\ RLe(args.lo, args.hi) => InInterval(ret.val, args.lo, args.hi)
    /\ InInterval(args.x, args.lo, args.hi) => REq(ret.val, args.x)
    /\ RLt(args.hi, args.lo) => REq(ret.val, args.lo)

\* x below an ordered pair of bounds is raised to lo
C12_Witness ==
  /\ ClampReturned
  /\ RLt(args.x, args.lo)
  /\ RLt(args.lo, args.hi)
  /\ REq(ret.val, args.lo)

\* x strictly inside the bounds comes back unchanged
C12_WitnessInside ==
  /\ ClampReturned
  /\ RLt(args.lo, args.x)
  /\ RLt(args.x, args.hi)
  /\ REq(ret.val, args.x)

\* clamp(50, 99, 5) = 99: no value is in the empty interval [99, 5]
C12_WitnessCrossedBounds ==
  /\ ClampReturned
  /\ args = [x |-> RInt(50), lo |-> RInt(99), hi |-> RInt(5)]
  /\ ret = Ok(RInt(99))

\* ======================================================================
\* Birth UTC offset: jh_report_parser._parse_birth_utc_offset_minutes
\* ======================================================================
\* The report's "Time Zone:" line is held as the four pieces of text the
\* regular expression captures, each a sequence of characters:
\*   Time Zone:\s*([+-]?\d+):(\d+):(\d+)\s*\((East|West) of GMT\)
\* NoLine is a report without any line holding "Time Zone:".

DigitChars == <<"0", "1", "2", "3", "4", "5", "6", "7", "8", "9">>

IsDigit(c) == \E i \in 1..10 : DigitChars[i] = c

\* \d+
IsDigits(s) == Len(s) > 0 /\ \A i \in 1..Len(s) : IsDigit(s[i])

\* [+-]?\d+
IsSignedDigits(s) ==
  \/ IsDigits(s)
  \/ Len(s) > 1 /\ s[1] \in {"+", "-"} /\ IsDigits(Tail(s))

DigitValue(c) == (CHOOSE i \in 1..10 : DigitChars[i] = c) - 1

RECURSIVE DigitsValue(_)
DigitsValue(s) ==
  IF s = <<>> THEN 0
  ELSE DigitsValue(SubSeq(s, 1, Len(s) - 1)) * 10 + DigitValue(s[Len(s)])

\* int(text) of a decimal numeral with an optional sign
int(s) ==
  IF s[1] = "-" THEN 0 - DigitsValue(Tail(s))
  ELSE IF s[1] = "+" THEN DigitsValue(Tail(s))
  ELSE DigitsValue(s)

NoLine ==
  [hours |-> <<>>, minutes |-> <<>>, seconds |-> <<>>, direction |-> NoneStr]

time_zone_matches(line) ==
  /\ line # NoLine
  /\ IsSignedDigits(line.hours)
  /\ IsDigits(line.minutes)
  /\ IsDigits(line.seconds)
  /\ line.direction \in {"East", "West"}

\* mutant: the seconds are dropped
seconds_carry_never(seconds) == 0

\* (1 if seconds >= 30 else 0)
seconds_carry(seconds) == IF seconds >= 30 THEN 1 ELSE 0

_parse_birth_utc_offset_minutes(line) ==
  IF ~time_zone_matches(line)
  THEN Raise("ValueError", "Cannot find 'Time Zone:' line in report")
  ELSE LET hours == int(line.hours)
           minutes == int(line.minutes)
           seconds == int(line.seconds)
           total == Abs(hours) * 60 + minutes + seconds_carry(seconds)
           sign == IF line.direction = "East" THEN 1 ELSE -1
       IN  Ok(sign * total)

\* the report writer's rendering of an offset: H:MM:SS
DigitChar(n) == DigitChars[n + 1]

RECURSIVE Decimal(_)
Decimal(n) ==
  IF n < 10 THEN <<DigitChar(n)>>
  ELSE Append(Decimal(n \div 10), DigitChar(n % 10))

TwoDigits(n) == <<DigitChar(n \div 10), DigitChar(n % 10)>>

TimeZoneLine(h, mm, ss, direction) ==
  [hours |-> Decimal(h), minutes |-> TwoDigits(mm),
   seconds |-> TwoDigits(ss), direction |-> direction]

TzHours == {0, 5, 8, 12, 19, 123}
TzMinutes == {0, 7, 30, 45, 59}
TzSeconds == {0, 29, 30, 35, 59}
TzDirections == {"East", "West"}

TzWellFormedLines ==
  { TimeZoneLine(h, mm, ss, d) :
      h \in TzHours, mm \in TzMinutes, ss \in TzSeconds, d \in TzDirections }

\* lines the expression accepts with an explicit sign on the hours, and
\* lines it rejects
TzSignedLines ==
  { [hours |-> <<s>> \o Decimal(h), minutes |-> TwoDigits(mm),
     seconds |-> TwoDigits(ss), direction |-> d] :
      s \in {"+", "-"}, h \in {5, 8}, mm \in {0, 30}, ss \in {29, 30},
      d \in TzDirections }

TzMalformedLines ==
  { [hours |-> h, minutes |-> <<"0", "0">>, seconds |-> s, direction |-> d] :
      h \in {<<>>, <<"8">>, <<"x">>, <<"-">>},
      s \in {<<>>, <<"0", "0">>},
      d \in {"East", "North", "of"} }

TzLines == TzWellFormedLines \cup TzSignedLines \cup TzMalformedLines
             \cup {NoLine}

InitOffset ==
  /\ fn = "_parse_birth_utc_offset_minutes"
  /\ args \in [time_zone : TzLines]
  /\ pc = "call"
  /\ ret = Pending
  /\ LoaderUnused
  /\ StoreUnused

CallOffset ==
  /\ pc = "call"
  /\ fn = "_parse_birth_utc_offset_minutes"
  /\ ret' = _parse_birth_utc_offset_minutes(args.time_zone)
  /\ pc' = "return"
  /\ UNCHANGED <<fn, args, cache, reads, data, uploads, profiles>>

NextOffset == CallOffset

SpecOffset == InitOffset /\ [][NextOffset]_vars

OffsetReturned == fn = "_parse_birth_utc_offset_minutes" /\ pc = "return"

StatedOffset(h, mm, ss, direction) ==
  (IF direction = "East" THEN 1 ELSE -1)
    * (h * 60 + mm + (IF ss >= 30 THEN 1 ELSE 0))

\* C13: a Time Zone line H:MM:SS (East|West of GMT) converts to
\* sign * (H*60 + MM + (1 if SS >= 30 else 0)) minutes, sign +1 for East
\* and -1 for West; 8:00:00 East gives +480; 19:30:35 West gives -1171.
C13_UtcOffsetMinutes ==
  /\ OffsetReturned =>
       \A h \in TzHours, mm \in TzMinutes, ss \in TzSeconds,
          d \in TzDirections :
         args.time_zone = TimeZoneLine(h, mm, ss, d)
           => ret = Ok(StatedOffset(h, mm, ss, d))
  /\ OffsetReturned /\ args.time_zone = TimeZoneLine(8, 0, 0, "East")
       => ret = Ok(480)
  /\ OffsetReturned /\ args.time_zone = TimeZoneLine(19, 30, 35, "West")
       => ret = Ok(-1171)

\* 19:30:35 (West of GMT): the seconds round the minutes up, the sign is -1
C13_Witness ==
  /\ OffsetReturned
  /\ args.time_zone = [hours |-> <<"1", "9">>, minutes |-> <<"3", "0">>,
                       seconds |-> <<"3", "5">>, direction |-> "West"]
  /\ ret = Ok(-1171)

\* a sign written on the hours is discarded: only the direction signs the
\* offset
C13_SignedHours ==
  OffsetReturned /\ args.time_zone \in TzSignedLines =>
    ret = Ok(StatedOffset(Abs(int(args.time_zone.hours)),
                          int(args.time_zone.minutes),
                          int(args.time_zone.seconds),
                          args.time_zone.direction))

\* ======================================================================
\* Rule catalog: rule_loader.load_yaml_rule and scoring._load_rules
\* ======================================================================
\* calendar_page is a synchronous endpoint, so the web framework runs it on
\* a pool of threads, and each thread calls score_day, which starts with
\* _load_rules().  load_yaml_rule is wrapped by functools.lru_cache: the
\* wrapper looks the file name up, and on a miss calls the function with no
\* lock held and stores what it returned; what raises is not stored.
\* A thread can be suspended between any two of these steps.

MaxThreads == 3

Threads == 1..MaxThreads

RuleFiles == {"rules.yaml"}

DEFAULT_dasha_relative_matrix ==
  ("5/9" :> RInt(95)) @@ ("3/11" :> RInt(90)) @@ ("4/10" :> RInt(85))
    @@ ("1/1" :> RInt(80)) @@ ("7/7" :> RInt(75)) @@ ("2/12" :> RInt(65))
    @@ ("6/8" :> RInt(60))

DEFAULT_RULES ==
  [dasha_relative_matrix |-> DEFAULT_dasha_relative_matrix,
   dual_lagna_weights |-> DEFAULT_dual_lagna_weights,
   dimension_weights |-> DEFAULT_dimension_weights,
   tara_bala_modifiers |-> DEFAULT_tara_bala_modifiers,
   gochara_rules |-> DEFAULT_gochara_rules,
   status_rules |-> DEFAULT_status_rules,
   signal_thresholds |-> DEFAULT_signal_thresholds,
   clamp |-> DEFAULT_clamp,
   score_model |-> DEFAULT_score_model]

\* The rule file, by what reading it gives:
\*   absent      path.exists() is false
\*   unreadable  read_text or yaml.safe_load raises
\*   scalar      safe_load returns None (an empty file), a list or a scalar
\*   mapping     safe_load returns a dict, held as its items (key, value)
RuleDocument(kind, items) == [kind |-> kind, items |-> items]

RuleDocuments ==
  { RuleDocument("absent", <<>>),
    RuleDocument("unreadable", <<>>),
    RuleDocument("scalar", <<>>),
    RuleDocument("mapping", <<>>),
    RuleDocument("mapping", << <<"clamp", [min |-> RInt(10)]>> >>),
    RuleDocument("mapping",
      << <<"signal_thresholds", [green |-> RInt(70), yellow |-> RInt(50)]>>,
         <<"clamp", [min |-> RInt(0), max |-> RInt(100)]>> >>),
    RuleDocument("mapping",
      << <<"notes", [author |-> "ops"]>>,
         <<"score_model", [gochara_amplifier |-> RInt(3)]>> >>) }

\* mutant: a key of the document is merged into the default table
merge_item_deep(merged, k, v) ==
  [x \in DOMAIN merged \cup {k} |->
     IF x # k THEN merged[x]
     ELSE IF k \in DOMAIN merged THEN v @@ merged[k] ELSE v]

\* merged[k] = v
merge_item(merged, k, v) ==
  [x \in DOMAIN merged \cup {k} |-> IF x = k THEN v ELSE merged[x]]

\* for k, v in (cfg or {}).items(): merged[k] = v
RECURSIVE merge_items(_, _, _)
merge_items(merged, items, i) ==
  IF i > Len(items) THEN merged
  ELSE merge_items(merge_item(merged, items[i][1], items[i][2]), items, i + 1)

\* the body of load_yaml_rule
load_yaml_rule(document) ==
  IF document.kind = "absent" THEN Raise("FileNotFoundError", <<>>)
  ELSE IF document.kind = "unreadable" THEN Raise("Exception", <<>>)
  ELSE IF document.kind # "mapping" THEN Raise("ValueError", <<>>)
  ELSE Ok(document.items)

\* whether the body gets as far as path.read_text and yaml.safe_load
load_reads_file(document) == document.kind # "absent"

NoData == <<>>

InitRules ==
  /\ fn = "score_day"
  /\ args \in [document : RuleDocuments, filename : RuleFiles]
  /\ pc = [t \in Threads |-> "idle"]
  /\ ret = [t \in Threads |-> Pending]
  /\ cache = <<>>
  /\ reads = [f \in RuleFiles |-> 0]
  /\ data = [t \in Threads |-> NoData]
  /\ StoreUnused

\* score_day -> _load_rules -> the lru_cache wrapper looks the key up
CacheLookup(t) ==
  /\ pc[t] = "idle"
  /\ IF args.filename \in DOMAIN cache
     THEN /\ data' = [data EXCEPT ![t] = cache[args.filename]]
          /\ pc' = [pc EXCEPT ![t] = "merge"]
     ELSE /\ pc' = [pc EXCEPT ![t] = "load"]
          /\ UNCHANGED data
  /\ UNCHANGED <<fn, args, ret, cache, reads, uploads, profiles>>

\* the miss: load_yaml_rule runs; an exception passes through the wrapper,
\* which stores nothing, to the except clause of _load_rules
LoadYamlRule(t) ==
  /\ pc[t] = "load"
  /\ LET r == load_yaml_rule(args.document)
     IN  /\ reads' = IF load_reads_file(args.document)
                     THEN [reads EXCEPT ![args.filename] = @ + 1]
                     ELSE reads
         /\ IF r.exc = ""
            THEN /\ data' = [data EXCEPT ![t] = r.val]
                 /\ pc' = [pc EXCEPT ![t] = "store"]
                 /\ UNCHANGED ret
            ELSE /\ ret' = [ret EXCEPT ![t] = Ok(DEFAULT_RULES)]
                 /\ pc' = [pc EXCEPT ![t] = "done"]
                 /\ UNCHANGED data
  /\ UNCHANGED <<fn, args, cache, uploads, profiles>>

\* the wrapper stores the result unless the key arrived in the meantime,
\* and returns the result this thread computed
CacheStore(t) ==
  /\ pc[t] = "store"
  /\ cache' = IF args.filename \in DOMAIN cache THEN cache
              ELSE (args.filename :> data[t]) @@ cache
  /\ pc' = [pc EXCEPT ![t] = "merge"]
  /\ UNCHANGED <<fn, args, ret, reads, data, uploads, profiles>>

\* merged = dict(DEFAULT_RULES); for k, v in cfg.items(): merged[k] = v
MergeRules(t) ==
  /\ pc[t] = "merge"
  /\ ret' = [ret EXCEPT ![t] = Ok(merge_items(DEFAULT_RULES, data[t], 1))]
  /\ pc' = [pc EXCEPT ![t] = "done"]
  /\ UNCHANGED <<fn, args, cache, reads, data, uploads, profiles>>

NextRules ==
  \E t \in Threads :
    \/ CacheLookup(t)
    \/ LoadYamlRule(t)
    \/ CacheStore(t)
    \/ MergeRules(t)

SpecRules == InitRules /\ [][NextRules]_vars

RulesRunning == fn = "score_day"

\* C14 as stated: whatever the interleaving of the score_day calls, the
\* rule file is read and parsed at most once.
C14_LoadedAtMostOnce ==
  RulesRunning => \A f \in RuleFiles : reads[f] <= 1

\* what does hold: a call that finds the file name in the cache does not
\* read the file
C14_HitDoesNotRead ==
  [][\A t \in Threads :
       (RulesRunning /\ pc[t] = "idle" /\ pc'[t] # "idle"
          /\ args.filename \in DOMAIN cache)
         => (reads' = reads /\ pc'[t] = "merge")]_vars

\* two threads both missed and both read a well-formed document
C14_TwoConcurrentReads ==
  /\ RulesRunning
  /\ args.document.kind = "mapping"
  /\ reads[args.filename] = 2
  /\ \E t, u \in Threads : t # u /\ pc[t] = "store" /\ pc[u] = "store"

\* three calls one after the other each read a document that is not a
\* mapping: nothing was cached
C14_SequentialRereads ==
  /\ RulesRunning
  /\ args.document.kind = "scalar"
  /\ reads[args.filename] = MaxThreads
  /\ \A t \in Threads : pc[t] = "done"

\* the document's value of a key, when the document is a mapping that
\* defines it
DocumentDefines(document, k) ==
  /\ document.kind = "mapping"
  /\ \E i \in 1..Len(document.items) : document.items[i][1] = k

DocumentValue(document, k) ==
  document.items[CHOOSE i \in 1..Len(document.items) :
                   document.items[i][1] = k][2]

DocumentKeys(document) ==
  IF document.kind = "mapping"
  THEN { document.items[i][1] : i \in 1..Len(document.items) }
  ELSE {}

\* C15: the catalog _load_rules returns has, for every top-level key, the
\* document's value when the document defines the key (the whole table
\* replaced) and the built-in default otherwise; with the document absent,
\* unreadable or not a mapping it is the built-in catalog; no call raises.
C15_ShallowOverride ==
  RulesRunning =>
    \A t \in Threads : pc[t] = "done" =>
      /\ ret[t].exc = ""
      /\ DOMAIN ret[t].val
           = DOMAIN DEFAULT_RULES \cup DocumentKeys(args.document)
      /\ \A k \in DOMAIN ret[t].val :
           ret[t].val[k] = IF DocumentDefines(args.document, k)
                           THEN DocumentValue(args.document, k)
                           ELSE DEFAULT_RULES[k]
      /\ args.document.kind # "mapping" => ret[t].val = DEFAULT_RULES

\* the document gives clamp: {min: 10}: the effective clamp table has no
\* max (the default 99 is not merged in), every other table is the default
C15_Witness ==
  /\ RulesRunning
  /\ args.document = RuleDocument("mapping", << <<"clamp", [min |-> RInt(10)]>> >>)
  /\ \E t \in Threads :
       /\ pc[t] = "done"
       /\ ret[t].exc = ""
       /\ ret[t].val.clamp = [min |-> RInt(10)]
       /\ ret[t].val.score_model = DEFAULT_score_model

\* the fallback: a document that is not a mapping gives the defaults
C15_WitnessFallback ==
  /\ RulesRunning
  /\ args.document.kind = "scalar"
  /\ \E t \in Threads : pc[t] = "done" /\ ret[t] = Ok(DEFAULT_RULES)

\* ======================================================================
\* Period timeline: jh_report_parser.parse_vimsottari_timeline
\* ======================================================================
\* A line of the block is the sequence of its tokens (line.split()); a blank
\* line is the empty sequence.  A token is a word, or a text of the form
\* dddd-dd-dd held as the three numbers it spells.

PLANETS == {"Sun", "Moon", "Mars", "Merc", "Jup", "Ven", "Sat", "Rah", "Ket"}

Word(w) == [w |-> w, y |-> 0, m |-> 0, d |-> 0]
DateText(y, m, d) == [w |-> "", y |-> y, m |-> m, d |-> d]

\* re.match(r"^\d{4}-\d{2}-\d{2}$", s)
is_date(tok) == tok.w = ""

IsLeap(y) == (y % 4 = 0 /\ y % 100 # 0) \/ y % 400 = 0

DaysInMonth(y, m) ==
  IF m = 2 THEN (IF IsLeap(y) THEN 29 ELSE 28)
  ELSE IF m \in {4, 6, 9, 11} THEN 30 ELSE 31

RECURSIVE DaysBeforeMonth(_, _)
DaysBeforeMonth(y, m) ==
  IF m = 1 THEN 0 ELSE DaysBeforeMonth(y, m - 1) + DaysInMonth(y, m - 1)

\* datetime.date(y, m, d): the date, held as its proleptic ordinal, or
\* ValueError, with its message, when the numbers are not a day of the
\* calendar
date(y, m, d) ==
  IF y < 1 \/ y > 9999 \/ m < 1 \/ m > 12 \/ d < 1 \/ d > DaysInMonth(y, m)
  THEN Raise("ValueError",
             IF y < 1 \/ y > 9999 THEN "year 0 is out of range"
             ELSE IF m < 1 \/ m > 12 THEN "month must be in 1..12"
             ELSE "day is out of range for month")
  ELSE Ok(365 * (y - 1) + ((y - 1) \div 4) - ((y - 1) \div 100)
            + ((y - 1) \div 400) + DaysBeforeMonth(y, m) + d)

\* the first line of a maha block: planet, planet, date
is_maha_start(tokens) ==
  /\ Len(tokens) >= 3
  /\ tokens[1].w \in PLANETS
  /\ tokens[2].w \in PLANETS
  /\ is_date(tokens[3])

\* the while loop over (antar, date) pairs, i counted from 0 as in the code:
\* the items appended, or ValueError from date()
RECURSIVE parse_pairs(_, _, _, _)
parse_pairs(tokens, i, current_maha, items) ==
  IF ~(i + 1 < Len(tokens)) THEN Ok(items)
  ELSE LET antar == tokens[i + 1]
           dt == tokens[i + 2]
       IN  IF antar.w \notin PLANETS \/ ~is_date(dt) THEN Ok(items)
           ELSE LET day == date(dt.y, dt.m, dt.d)
                IN  IF day.exc # "" THEN day
                    ELSE parse_pairs(tokens, i + 2, current_maha,
                           Append(items, <<current_maha, antar.w, day.val>>))

\* the for loop over the lines
RECURSIVE parse_lines(_, _, _, _)
parse_lines(block, n, current_maha, items) ==
  IF n > Len(block) THEN Ok(items)
  ELSE LET tokens == block[n]
       IN  IF tokens = <<>> THEN parse_lines(block, n + 1, current_maha, items)
           ELSE IF is_maha_start(tokens)
           THEN LET r == parse_pairs(tokens, 1, tokens[1].w, items)
                IN  IF r.exc # "" THEN r
                    ELSE parse_lines(block, n + 1, tokens[1].w, r.val)
           ELSE IF current_maha = NoneStr
           THEN Raise("ValueError",
                  "Vimsottari block continuation found before any maha block")
           ELSE LET r == parse_pairs(tokens, 0, current_maha, items)
                IN  IF r.exc # "" THEN r
                    ELSE parse_lines(block, n + 1, current_maha, r.val)

\* list.sort(key=lambda x: x[2]): stable, so an item goes after the items
\* already placed whose date is not later
RECURSIVE insert_by_date(_, _)
insert_by_date(sorted, item) ==
  IF sorted = <<>> THEN <<item>>
  ELSE IF sorted[Len(sorted)][3] <= item[3] THEN Append(sorted, item)
  ELSE Append(insert_by_date(SubSeq(sorted, 1, Len(sorted) - 1), item),
              sorted[Len(sorted)])

RECURSIVE sort_by_date(_, _, _)
sort_by_date(items, n, sorted) ==
  IF n > Len(items) THEN sorted
  ELSE sort_by_date(items, n + 1, insert_by_date(sorted, items[n]))

\* mutant: an item is dropped when its (antar, date) was seen, whatever the
\* maha
RECURSIVE dedup_by_antar_and_date(_, _, _)
dedup_by_antar_and_date(items, n, deduped) ==
  IF n > Len(items) THEN deduped
  ELSE dedup_by_antar_and_date(items, n + 1,
         IF \E k \in 1..Len(deduped) :
              deduped[k][2] = items[n][2] /\ deduped[k][3] = items[n][3]
         THEN deduped ELSE Append(deduped, items[n]))

\* the dedup loop: seen holds exactly the items of deduped
RECURSIVE dedup(_, _, _)
dedup(items, n, deduped) ==
  IF n > Len(items) THEN deduped
  ELSE dedup(items, n + 1,
             IF \E k \in 1..Len(deduped) : deduped[k] = items[n]
             THEN deduped ELSE Append(deduped, items[n]))

parse_vimsottari_timeline(block) ==
  LET r == parse_lines(block, 1, NoneStr, <<>>)
  IN  IF r.exc # "" THEN r
      ELSE Ok(dedup(sort_by_date(r.val, 1, <<>>), 1, <<>>))

MaxBlockLines == 3

\*   Jup  Jup 1998-02-01  Sat 2000-03-20
\*   Sat 2000-03-20  Merc 1997-01-01
\*   Sat  Sat 2000-03-20  Merc 2002-10-06
\*   Ket 2005-01-08  Xyz 2005-12-16  Ven 2006-01-01
\*   Jup  Jup 2001-02-30
\*   Jup  Jup 1998-02-01  Sat 2000-3-20
\*   Maha Dasas:
\*   Ven
\*   (blank)
VimsottariLines ==
  { << Word("Jup"), Word("Jup"), DateText(1998, 2, 1),
       Word("Sat"), DateText(2000, 3, 20) >>,
    << Word("Sat"), DateText(2000, 3, 20), Word("Merc"), DateText(1997, 1, 1) >>,
    << Word("Sat"), Word("Sat"), DateText(2000, 3, 20),
       Word("Merc"), DateText(2002, 10, 6) >>,
    << Word("Ket"), DateText(2005, 1, 8), Word("Xyz"), DateText(2005, 12, 16),
       Word("Ven"), DateText(2006, 1, 1) >>,
    << Word("Jup"), Word("Jup"), DateText(2001, 2, 30) >>,
    << Word("Jup"), Word("Jup"), DateText(1998, 2, 1),
       Word("Sat"), Word("2000-3-20") >>,
    << Word("Maha"), Word("Dasas:") >>,
    << Word("Ven") >>,
    << >> }

\* what _extract_vimsottari_block returns: at least one line, the first and
\* the last not blank
VimsottariBlocks ==
  { b \in UNION { [1..n -> VimsottariLines] : n \in 1..MaxBlockLines } :
      b[1] # <<>> /\ b[Len(b)] # <<>> }

InitTimeline ==
  /\ fn = "parse_vimsottari_timeline"
  /\ args \in [block : VimsottariBlocks]
  /\ pc = "call"
  /\ ret = Pending
  /\ LoaderUnused
  /\ StoreUnused

CallTimeline ==
  /\ pc = "call"
  /\ fn = "parse_vimsottari_timeline"
  /\ ret' = parse_vimsottari_timeline(args.block)
  /\ pc' = "return"
  /\ UNCHANGED <<fn, args, cache, reads, data, uploads, profiles>>

NextTimeline == CallTimeline

SpecTimeline == InitTimeline /\ [][NextTimeline]_vars

TimelineReturned ==
  fn = "parse_vimsottari_timeline" /\ pc = "return" /\ ret.exc = ""

\* The triples the rows hold, read off the block without the parser's loop:
\* line n gives a triple at pair k when the line's pairs up to k are all
\* (planet, date), under the maha of the last maha-start line up to n.
PairOffset(tokens) == IF is_maha_start(tokens) THEN 1 ELSE 0

PairAt(tokens, k) ==
  LET i == PairOffset(tokens) + 2 * (k - 1)
  IN  <<tokens[i + 1], tokens[i + 2]>>

PairCount(tokens) == (Len(tokens) - PairOffset(tokens)) \div 2

PairIsGood(tokens, k) ==
  /\ k <= PairCount(tokens)
  /\ PairAt(tokens, k)[1].w \in PLANETS
  /\ is_date(PairAt(tokens, k)[2])

MahaOf(block, n) ==
  block[CHOOSE j \in 1..n :
          /\ is_maha_start(block[j])
          /\ \A l \in (j + 1)..n : ~is_maha_start(block[l])][1].w

StatedTriples(block) ==
  { <<MahaOf(block, n), PairAt(block[n], k)[1].w,
      date(PairAt(block[n], k)[2].y, PairAt(block[n], k)[2].m,
           PairAt(block[n], k)[2].d).val>> :
      <<n, k>> \in { p \in (1..Len(block)) \X (1..3) :
                       \A j \in 1..p[2] : PairIsGood(block[p[1]], j) } }

\* C18: whenever parse_vimsottari_timeline returns, the sequence is not
\* empty, its dates never decrease, no triple occurs twice, and its triples
\* are exactly the triples of the rows.
C18_TimelineInvariant ==
  TimelineReturned =>
    /\ Len(ret.val) >= 1
    /\ \A i \in 1..(Len(ret.val) - 1) : ret.val[i][3] <= ret.val[i + 1][3]
    /\ \A i, j \in 1..Len(ret.val) : i # j => ret.val[i] # ret.val[j]
    /\ { ret.val[i] : i \in 1..Len(ret.val) } = StatedTriples(args.block)

\* two maha blocks and a continuation: (Sat, Merc, 1997-01-01) is collected
\* last and comes out first; the date 2000-03-20 is kept once under Jup and
\* once under Sat, and the repeated (Sat, Sat, 2000-03-20) is dropped
C18_Witness ==
  /\ TimelineReturned
  /\ Len(args.block) = 3
  /\ Len(ret.val) = 5
  /\ ret.val[1][1] = "Sat" /\ ret.val[1][2] = "Merc"
  /\ ret.val[1][3] < ret.val[2][3]
  /\ \E i, j \in 1..5 :
       /\ i # j
       /\ ret.val[i][3] = ret.val[j][3]
       /\ ret.val[i][2] = ret.val[j][2]
       /\ ret.val[i][1] # ret.val[j][1]

\* ======================================================================
\* Report parsing: jh_report_parser.parse_report_text
\* ======================================================================
\* The report text is held by the lines the parser looks for, each as the
\* pieces of text its regular expression captures:
\*   nakshatra   [name, paren]: the text after "Nakshatra:" and whether a
\*               "(" follows it; no such line is name = <<>>
\*   time_zone   as above
\*   date, time  the "Date:" and "Time:" lines; no such line is NoDateLine,
\*               NoTimeLine
\*   lagna       the two-letter code of the "Lagna" row, NoneStr without one
\*   body        the rows of the body table: <<first word, two-letter code>>
\*   vimsottari  [header, lines]: whether a line holds "Vimsottari Dasa",
\*               and the lines after it up to the next dasa section
\*   bav         [header, rows]: the Ashtakavarga table, rows <<label, numbers>>
\* A text the parser hands on unchanged is a sequence of characters, and
\* Python None for such a text is the empty sequence; None for a dict is the
\* dict with no key.

IsLetter(c) ==
  \E i \in 1..26 : UpperChars[i] = c \/ LowerChars[i] = c

\* ^Nakshatra:\s*([A-Za-z]+)\s*\(
_parse_natal_nakshatra_name(text) ==
  IF /\ Len(text.nakshatra.name) > 0
     /\ \A i \in 1..Len(text.nakshatra.name) : IsLetter(text.nakshatra.name[i])
     /\ text.nakshatra.paren
  THEN Ok(text.nakshatra.name)
  ELSE Raise("ValueError", "Cannot find 'Nakshatra:' line in report")

month_names ==
  [January |-> <<"0", "1">>, February |-> <<"0", "2">>, March |-> <<"0", "3">>,
   April |-> <<"0", "4">>, May |-> <<"0", "5">>, June |-> <<"0", "6">>,
   July |-> <<"0", "7">>, August |-> <<"0", "8">>, September |-> <<"0", "9">>,
   October |-> <<"1", "0">>, November |-> <<"1", "1">>, December |-> <<"1", "2">>,
   Jan |-> <<"0", "1">>, Feb |-> <<"0", "2">>, Mar |-> <<"0", "3">>,
   Apr |-> <<"0", "4">>, Jun |-> <<"0", "6">>, Jul |-> <<"0", "7">>,
   Aug |-> <<"0", "8">>, Sep |-> <<"0", "9">>, Oct |-> <<"1", "0">>,
   Nov |-> <<"1", "1">>, Dec |-> <<"1", "2">>]

\* str.zfill(2)
zfill2(s) == IF Len(s) < 2 THEN <<"0">> \o s ELSE s

NoDateLine == [month |-> "", day |-> <<>>, year |-> <<>>]
NoTimeLine == [hour |-> <<>>, minute |-> <<>>, second |-> <<>>]

\* ^Date:\s*(\w+)\s+(\d+),\s*(\d{4})
date_line_matches(line) ==
  line.month # "" /\ IsDigits(line.day) /\ IsDigits(line.year)
    /\ Len(line.year) = 4

\* ^Time:\s*(\d{1,2}):(\d{2}):(\d{2})
time_line_matches(line) ==
  /\ IsDigits(line.hour) /\ Len(line.hour) <= 2
  /\ IsDigits(line.minute) /\ Len(line.minute) = 2
  /\ IsDigits(line.second) /\ Len(line.second) = 2

_parse_birth_date_time(text) ==
  [date_str |->
     IF date_line_matches(text.date)
     THEN text.date.year \o <<"-">>
            \o Get(month_names, text.date.month, <<"0", "1">>)
            \o <<"-">> \o zfill2(text.date.day)
     ELSE <<>>,
   time_str |->
     IF time_line_matches(text.time)
     THEN zfill2(text.time.hour) \o <<":">> \o text.time.minute
            \o <<":">> \o text.time.second
     ELSE <<>>]

\* ^Lagna\s+\d+\s+([A-Za-z]{2})\s+\d+'
_parse_lagna_rasi(text) == text.lagna

BODY_NAME_TO_ABBR ==
  [Sun |-> "Sun", Moon |-> "Moon", Mars |-> "Mars", Mercury |-> "Merc",
   Jupiter |-> "Jup", Venus |-> "Ven", Saturn |-> "Sat", Rahu |-> "Rah",
   Ketu |-> "Ket"]

\* for m in planet_pattern.finditer(text): out[abbr] = rasi
RECURSIVE planet_rasi_rows(_, _, _)
planet_rasi_rows(body, n, out) ==
  IF n > Len(body) THEN out
  ELSE planet_rasi_rows(body, n + 1,
         IF body[n][1] \in DOMAIN BODY_NAME_TO_ABBR
         THEN LET abbr == BODY_NAME_TO_ABBR[body[n][1]]
              IN  [p \in DOMAIN out \cup {abbr} |->
                     IF p = abbr THEN body[n][2] ELSE out[p]]
         ELSE out)

_parse_planet_rasi_map(text) == planet_rasi_rows(text.body, 1, EmptyDict)

\* the block between the header and the next dasa section, blank lines at
\* both ends removed
RECURSIVE strip_blank_lines(_)
strip_blank_lines(lines) ==
  IF lines = <<>> THEN lines
  ELSE IF lines[1] = <<>> THEN strip_blank_lines(Tail(lines))
  ELSE IF lines[Len(lines)] = <<>>
       THEN strip_blank_lines(SubSeq(lines, 1, Len(lines) - 1))
  ELSE lines

_extract_vimsottari_block(text) ==
  IF ~text.vimsottari.header
  THEN Raise("ValueError", "Cannot find 'Vimsottari Dasa' section")
  ELSE LET block == strip_blank_lines(text.vimsottari.lines)
       IN  IF block = <<>> THEN Raise("ValueError", "Empty Vimsottari block")
           ELSE Ok(block)

row_to_planet ==
  [Su |-> "Sun", Mo |-> "Moon", Ma |-> "Mars", Me |-> "Merc", Ju |-> "Jup",
   Ve |-> "Ven", Sa |-> "Sat"]

\* \d+ at position i of s and on: the longest run of digits
RECURSIVE DigitRun(_, _)
DigitRun(s, i) ==
  IF i <= Len(s) /\ IsDigit(s[i]) THEN <<s[i]>> \o DigitRun(s, i + 1) ELSE <<>>

\* re.findall(r"\d+\*?", s) from position i on: each run of digits with the
\* star that follows it, if one does
RECURSIVE findall_numbers(_, _)
findall_numbers(s, i) ==
  IF i > Len(s) THEN <<>>
  ELSE IF ~IsDigit(s[i]) THEN findall_numbers(s, i + 1)
  ELSE LET run == DigitRun(s, i)
           j == i + Len(run)
           x == IF j <= Len(s) /\ s[j] = "*" THEN Append(run, "*") ELSE run
       IN  <<x>> \o findall_numbers(s, i + Len(x))

\* int(x.replace("*", ""))
bav_score(x) == int(SelectSeq(x, LAMBDA c : c # "*"))

\* the rows of the table up to "Sodhya Pinda": a row is <<label, tail>>, the
\* text before and after the first white space of the stripped line; a row
\* with a planet label and at least 12 numbers gives that planet's score per
\* sign
RECURSIVE bav_rows(_, _, _)
bav_rows(rows, n, out) ==
  IF n > Len(rows) THEN out
  ELSE IF rows[n][1] = "Sodhya Pinda" THEN out
  ELSE bav_rows(rows, n + 1,
         LET nums == findall_numbers(rows[n][2], 1)
         IN  IF rows[n][1] \in DOMAIN row_to_planet /\ Len(nums) >= 12
             THEN LET planet == row_to_planet[rows[n][1]]
                      scores == [s \in { RASI_ORDER[i] : i \in 1..12 } |->
                                   bav_score(nums[ListIndex(RASI_ORDER, s) + 1])]
                  IN  [p \in DOMAIN out \cup {planet} |->
                         IF p = planet THEN scores ELSE out[p]]
             ELSE out)

_parse_bav_rasi_table(text) ==
  IF ~text.bav.header THEN EmptyDict ELSE bav_rows(text.bav.rows, 1, EmptyDict)

\* Python None where a dict is expected
NoneDict == [None |-> NoneStr]

\* mutant: the houses are counted from Aries, whatever the ascendant
planet_houses_from_aries(lagna, planet_rasi) ==
  [p \in { q \in DOMAIN planet_rasi :
             house_from_lagna_and_moon("Ar", planet_rasi[q]).exc = "" } |->
     house_from_lagna_and_moon("Ar", planet_rasi[p]).val]

\* the try/except loop over planet_rasi.items(): a planet whose house cannot
\* be computed is skipped
planet_houses_of(lagna, planet_rasi) ==
  [p \in { q \in DOMAIN planet_rasi :
             house_from_lagna_and_moon(lagna, planet_rasi[q]).exc = "" } |->
     house_from_lagna_and_moon(lagna, planet_rasi[p]).val]

ParsedProfile(natal, birth_offset, bdt, current, lagna, planet_rasi, bav_rasi) ==
  LET with_houses == lagna # NoneStr /\ planet_rasi # EmptyDict
      planet_houses == IF with_houses THEN planet_houses_of(lagna, planet_rasi)
                       ELSE NoneDict
  IN  [natal_nakshatra_name |-> natal,
       birth_utc_offset_minutes |-> birth_offset,
       birth_date |-> bdt.date_str,
       birth_time |-> bdt.time_str,
       dasha_maha |-> current[1],
       dasha_antar |-> current[2],
       lagna_rasi |-> lagna,
       natal_moon_rasi |-> IF planet_rasi # EmptyDict
                           THEN Get(planet_rasi, "Moon", NoneStr)
                           ELSE NoneStr,
       planet_rasi |-> IF planet_rasi # EmptyDict THEN planet_rasi ELSE NoneDict,
       planet_houses |-> planet_houses,
       dasha_maha_house |-> IF with_houses
                            THEN Get(planet_houses, current[1], NoneInt)
                            ELSE NoneInt,
       dasha_antar_house |-> IF with_houses
                             THEN Get(planet_houses, current[2], NoneInt)
                             ELSE NoneInt,
       bav_rasi |-> IF bav_rasi # EmptyDict THEN bav_rasi ELSE NoneDict]

parse_report_text(text, today) ==
  LET natal == _parse_natal_nakshatra_name(text)
      birth_offset == _parse_birth_utc_offset_minutes(text.time_zone)
      vblock == _extract_vimsottari_block(text)
      timeline == parse_vimsottari_timeline(vblock.val)
      current == get_current_dasha(timeline.val, today)
  IN  IF natal.exc # "" THEN natal
      ELSE IF birth_offset.exc # "" THEN birth_offset
      ELSE IF vblock.exc # "" THEN vblock
      ELSE IF timeline.exc # "" THEN timeline
      ELSE IF current.exc # "" THEN current
      ELSE Ok(ParsedProfile(natal.val, birth_offset.val,
                            _parse_birth_date_time(text), current.val,
                            _parse_lagna_rasi(text),
                            _parse_planet_rasi_map(text),
                            _parse_bav_rasi_table(text)))

\* ---- the reports parsed ----

NakLine(name, paren) == [name |-> name, paren |-> paren]

\*   Nakshatra:  Visakha (Ju)       a mansion
\*   Nakshatra:  Foo (Ju)           not a mansion
\*   Nakshatra:  Visakha            no parenthesis
\*   Nakshatra:  Purva-Phalguni (Ve)   not letters only
\*   (no such line)
ReportNakLines ==
  { NakLine(<<"V","i","s","a","k","h","a">>, TRUE),
    NakLine(<<"F","o","o">>, TRUE),
    NakLine(<<"V","i","s","a","k","h","a">>, FALSE),
    NakLine(<<"P","u","r","v","a","-","P","h","a","l","g","u","n","i">>, TRUE),
    NakLine(<<>>, FALSE) }

ReportTimeZones ==
  { TimeZoneLine(8, 0, 0, "East"),
    TimeZoneLine(19, 30, 35, "West"),
    [hours |-> <<"8">>, minutes |-> <<"0", "0">>, seconds |-> <<"0", "0">>,
     direction |-> "North"],
    NoLine }

ReportLagnas == { "Sc", "Xx", NoneStr }

ReportBodies ==
  { << <<"Sun", "Ar">>, <<"Moon", "Ta">>, <<"Jupiter", "Ge">>,
       <<"Saturn", "Ta">>, <<"Mercury", "Ta">>, <<"Uranus", "Aq">> >>,
    << <<"Sun", "Ar">>, <<"Moon", "Ta">>, <<"Jupiter", "Zz">>,
       <<"Saturn", "Ta">>, <<"Jupiter", "Qq">> >>,
    << <<"Moon", "Ta">>, <<"Jupiter", "Pi">> >>,
    << >> }

ReportVimsottaris ==
  { [header |-> FALSE, lines |-> <<>>],
    [header |-> TRUE, lines |-> <<>>],
    [header |-> TRUE, lines |-> << <<>>, <<>> >>],
    [header |-> TRUE,
     lines |-> << <<>>,
                  << Word("Jup"), Word("Jup"), DateText(1998, 2, 1),
                     Word("Sat"), DateText(2000, 3, 20) >>,
                  << Word("Merc"), DateText(2002, 10, 6) >>,
                  << Word("Sat"), Word("Sat"), DateText(2014, 2, 1),
                     Word("Merc"), DateText(2017, 2, 4) >>,
                  <<>> >>],
    [header |-> TRUE,
     lines |-> << << Word("Maha"), Word("Dasas:") >>,
                  << Word("Jup"), Word("Jup"), DateText(1998, 2, 1) >> >>],
    [header |-> TRUE,
     lines |-> << << Word("Jup"), Word("Jup"), DateText(2001, 2, 30) >> >>] }

\* the reference dates: before the timeline, inside Jup/Sat, inside Jup/Merc
\* and inside Sat/Merc
ReportTodays ==
  { date(1990, 1, 1).val, date(2001, 5, 7).val, date(2010, 1, 1).val,
    date(2026, 1, 1).val }

\* the text of a table row after its label: the numbers separated by two
\* blanks, those at the positions of `starred` followed by a star
RECURSIVE BavTail(_, _)
BavTail(numbers, starred) ==
  IF numbers = <<>> THEN <<>>
  ELSE LET n == Len(numbers)
           cell == IF n \in starred THEN Append(Decimal(numbers[n]), "*")
                   ELSE Decimal(numbers[n])
       IN  IF n = 1 THEN cell
           ELSE BavTail(SubSeq(numbers, 1, n - 1), starred) \o <<" ", " ">> \o cell

\* the Date and Time lines and the Ashtakavarga table: all there, or none
ReportExtras ==
  { [date |-> [month |-> "May", day |-> <<"7">>,
               year |-> <<"2", "0", "0", "1">>],
     time |-> [hour |-> <<"9">>, minute |-> <<"0", "1">>,
               second |-> <<"4", "6">>],
     bav |-> [header |-> TRUE,
              rows |-> << <<"Su", BavTail(<<3, 2, 2, 4, 5, 5, 5, 2, 4, 6, 5, 5>>, {1})>>,
                          <<"As", BavTail(<<1, 2, 3>>, {})>>,
                          <<"Sodhya Pinda", <<>> >>,
                          <<"Ju", BavTail(<<5, 4, 5, 6, 5, 4, 4, 5, 5, 4, 5, 4>>, {2})>> >>]],
    [date |-> NoDateLine, time |-> NoTimeLine,
     bav |-> [header |-> FALSE, rows |-> <<>>]] }

ReportText(nak, tz, lagna, body, vim, extra) ==
  [nakshatra |-> nak, time_zone |-> tz, date |-> extra.date,
   time |-> extra.time, lagna |-> lagna, body |-> body, vimsottari |-> vim,
   bav |-> extra.bav]

Reports ==
  { ReportText(nak, tz, lagna, body, vim, extra) :
      nak \in ReportNakLines, tz \in ReportTimeZones, lagna \in ReportLagnas,
      body \in ReportBodies, vim \in ReportVimsottaris,
      extra \in ReportExtras }

InitParse ==
  /\ fn = "parse_report_text"
  /\ args \in [text : Reports, today : ReportTodays]
  /\ pc = "call"
  /\ ret = Pending
  /\ LoaderUnused
  /\ StoreUnused

CallParse ==
  /\ pc = "call"
  /\ fn = "parse_report_text"
  /\ ret' = parse_report_text(args.text, args.today)
  /\ pc' = "return"
  /\ UNCHANGED <<fn, args, cache, reads, data, uploads, profiles>>

NextParse == CallParse

SpecParse == InitParse /\ [][NextParse]_vars

ParseEnded == fn = "parse_report_text" /\ pc = "return"
ParseReturned == ParseEnded /\ ret.exc = ""

IsSignCode(code) == \E i \in 1..Len(RASI_ORDER) : RASI_ORDER[i] = code

IsMansion(name) == nak_to_index(name).exc = ""

\* the tokens of a report that resolve to nothing: the mansion of a
\* well-formed Nakshatra line, the code of the Lagna row, the code of a
\* planet row
UnresolvableMansion(text) ==
  /\ _parse_natal_nakshatra_name(text).exc = ""
  /\ ~IsMansion(text.nakshatra.name)

UnresolvableLagna(text) == text.lagna # NoneStr /\ ~IsSignCode(text.lagna)

UnresolvablePlanetSign(text) ==
  \E n \in 1..Len(text.body) :
    /\ text.body[n][1] \in DOMAIN BODY_NAME_TO_ABBR
    /\ ~IsSignCode(text.body[n][2])

\* C16 as stated: a report whose mansion token or a sign code of the
\* ascendant or of a planet row does not resolve makes parse_report_text
\* fail, and no profile returned holds such a token.
C16_UnresolvableTokensFail ==
  /\ ParseEnded /\ ( \/ UnresolvableMansion(args.text)
                     \/ UnresolvableLagna(args.text)
                     \/ UnresolvablePlanetSign(args.text) )
       => ret.exc # ""
  /\ ParseReturned =>
       /\ IsMansion(ret.val.natal_nakshatra_name)
       /\ ret.val.lagna_rasi = NoneStr \/ IsSignCode(ret.val.lagna_rasi)
       /\ ret.val.planet_rasi # NoneDict =>
            \A p \in DOMAIN ret.val.planet_rasi :
              IsSignCode(ret.val.planet_rasi[p])

\* what the parser does with them: the profile is returned with the mansion
\* "Foo", the ascendant "Xx" and Jupiter in "Qq", and without any house
C16_UnresolvableTokensReturned ==
  /\ ParseReturned
  /\ ret.val.natal_nakshatra_name = <<"F", "o", "o">>
  /\ ret.val.lagna_rasi = "Xx"
  /\ ret.val.planet_rasi # NoneDict
  /\ ret.val.planet_rasi["Jup"] = "Qq"
  /\ ret.val.planet_houses = EmptyDict

\* the sign a report gives for a planet: the code of the last body row of
\* that planet, NoneStr without one
ReportSign(text, abbr) ==
  LET rows == { n \in 1..Len(text.body) :
                  /\ text.body[n][1] \in DOMAIN BODY_NAME_TO_ABBR
                  /\ BODY_NAME_TO_ABBR[text.body[n][1]] = abbr }
  IN  IF rows = {} THEN NoneStr
      ELSE text.body[CHOOSE n \in rows : \A k \in rows : k <= n][2]

\* the timeline of a report that parsed
ReportTimeline(text) ==
  parse_vimsottari_timeline(strip_blank_lines(text.vimsottari.lines)).val

ActiveEntry(timeline, today) ==
  IF StartedAt(timeline, today) = {} THEN 1 ELSE LastStarted(timeline, today)

\* the house of a planet from the ascendant when both signs are there and
\* are sign codes, unset (NoneInt) otherwise
StatedPlanetHouse(text, abbr) ==
  IF IsSignCode(text.lagna) /\ IsSignCode(ReportSign(text, abbr))
  THEN StatedHouse(text.lagna, ReportSign(text, abbr))
  ELSE NoneInt

\* C19: the active (major, sub) planets are those of the last timeline entry
\* dated on or before the reference date, the first entry when the reference
\* date precedes the timeline; dasha_maha_house and dasha_antar_house are the
\* houses of those planets' signs counted from the ascendant sign, each left
\* unset exactly when the ascendant sign or that planet's sign is not
\* available.
C19_ActivePeriodHouses ==
  ParseReturned =>
    LET timeline == ReportTimeline(args.text)
        active == timeline[ActiveEntry(timeline, args.today)]
    IN  /\ ret.val.dasha_maha = active[1]
        /\ ret.val.dasha_antar = active[2]
        /\ ret.val.dasha_maha_house = StatedPlanetHouse(args.text, active[1])
        /\ ret.val.dasha_antar_house = StatedPlanetHouse(args.text, active[2])

\* ascendant Scorpio, reference date in Jup/Sat: Jupiter in Gemini is in
\* house 8 and Saturn in Taurus in house 7
C19_Witness ==
  /\ ParseReturned
  /\ args.today = date(2001, 5, 7).val
  /\ ret.val.lagna_rasi = "Sc"
  /\ ret.val.dasha_maha = "Jup" /\ ret.val.dasha_antar = "Sat"
  /\ ret.val.dasha_maha_house = 8
  /\ ret.val.dasha_antar_house = 7

\* the body table has no Saturn row: the sub-period house alone is unset
C19_WitnessOneUnset ==
  /\ ParseReturned
  /\ ret.val.dasha_maha = "Jup" /\ ret.val.dasha_antar = "Sat"
  /\ ret.val.dasha_maha_house = 5
  /\ ret.val.dasha_antar_house = NoneInt

\* the reference date precedes the timeline: the first entry is active
C19_WitnessBeforeTimeline ==
  /\ ParseReturned
  /\ args.today = date(1990, 1, 1).val
  /\ ret.val.dasha_maha = "Jup" /\ ret.val.dasha_antar = "Jup"

\* ======================================================================
\* Upload: api/upload.upload_file and storage/profile_store.save_profile
\* ======================================================================
\* A request carries the report, the two time zone parameters, the file id
\* uuid4 gives it (a fresh one) and the date the clock gives for today.
\* The response is [status_code, file_id, calendar_tz, error, url], with
\* NoneStr for a key the response does not have.

MaxUploads == 2

\* f"UTC{sign}{hours:02d}:{mins:02d}"
format_utc_offset(minutes) ==
  IF minutes = 0 THEN <<"U", "T", "C", "±", "0", ":", "0", "0">>
  ELSE LET hours == Abs(minutes) \div 60
           mins == Abs(minutes) % 60
       IN  <<"U", "T", "C", IF minutes > 0 THEN "+" ELSE "-">>
             \o (IF hours < 10 THEN <<"0">> \o Decimal(hours) ELSE Decimal(hours))
             \o <<":">> \o TwoDigits(mins)

\* if calendar_tz == "auto": calendar_tz = device_tz or "UTC"
effective_calendar_tz(calendar_tz, device_tz) ==
  IF calendar_tz = "auto"
  THEN (IF device_tz = "" THEN "UTC" ELSE device_tz)
  ELSE calendar_tz

\* the dict handed to save_profile
profile_data(calendar_tz, parsed) ==
  [calendar_tz |-> calendar_tz,
   parsed |->
     [birth_date |-> parsed.birth_date,
      birth_time |-> parsed.birth_time,
      natal_nakshatra_name |-> parsed.natal_nakshatra_name,
      birth_utc_offset_minutes |-> parsed.birth_utc_offset_minutes,
      birth_utc_offset_display |->
        format_utc_offset(parsed.birth_utc_offset_minutes),
      dasha_maha |-> parsed.dasha_maha,
      dasha_antar |-> parsed.dasha_antar,
      lagna_rasi |-> parsed.lagna_rasi,
      natal_moon_rasi |-> parsed.natal_moon_rasi,
      dasha_maha_house |-> parsed.dasha_maha_house,
      dasha_antar_house |-> parsed.dasha_antar_house,
      planet_rasi |-> parsed.planet_rasi,
      planet_houses |-> parsed.planet_houses,
      bav_rasi |-> parsed.bav_rasi]]

\* ---- storage/profile_store: a profile is a JSON file ----
\* json.dumps turns None into null, a str into a string, an int into a
\* number, a dict into an object and a list into an array; json.loads turns
\* them back.  A JSON value is held with its kind.  The model holds None as
\* a value of the field's own type (NoneStr, NoneInt, NoneDict, and the
\* empty text for the optional birth date and time), so each field is
\* written and read by the coder of its type.

JNull == [t |-> "null"]
JString(s) == [t |-> "string", v |-> s]
JNumber(n) == [t |-> "number", v |-> n]
JObject(members) == [t |-> "object", v |-> members]
JArray(items) == [t |-> "array", v |-> items]

IsNoneDict(d) == DOMAIN d = {"None"}

dumps_optional_text(s) == IF s = <<>> THEN JNull ELSE JString(s)
dumps_optional_str(s) == IF s = NoneStr THEN JNull ELSE JString(s)
dumps_optional_int(n) == IF n = NoneInt THEN JNull ELSE JNumber(n)
dumps_optional_dict(d, dumps_value(_)) ==
  IF IsNoneDict(d) THEN JNull
  ELSE JObject([k \in DOMAIN d |-> dumps_value(d[k])])

loads_optional_text(j) == IF j.t = "null" THEN <<>> ELSE j.v
loads_optional_str(j) == IF j.t = "null" THEN NoneStr ELSE j.v
loads_optional_int(j) == IF j.t = "null" THEN NoneInt ELSE j.v
loads_optional_dict(j, loads_value(_)) ==
  IF j.t = "null" THEN NoneDict
  ELSE [k \in DOMAIN j.v |-> loads_value(j.v[k])]

ParsedTextKeys == {"natal_nakshatra_name", "birth_utc_offset_display"}
ParsedOptionalTextKeys == {"birth_date", "birth_time"}
ParsedOptionalStrKeys == {"dasha_maha", "dasha_antar", "lagna_rasi", "natal_moon_rasi"}
ParsedOptionalIntKeys == {"dasha_maha_house", "dasha_antar_house"}

\* the chart: the dict upload_file builds under "parsed"
dumps_parsed(parsed) ==
  JObject([k \in DOMAIN parsed |->
    IF k \in ParsedTextKeys THEN JString(parsed[k])
    ELSE IF k \in ParsedOptionalTextKeys THEN dumps_optional_text(parsed[k])
    ELSE IF k \in ParsedOptionalStrKeys THEN dumps_optional_str(parsed[k])
    ELSE IF k \in ParsedOptionalIntKeys THEN dumps_optional_int(parsed[k])
    ELSE IF k = "birth_utc_offset_minutes" THEN JNumber(parsed[k])
    ELSE IF k = "planet_rasi" THEN dumps_optional_dict(parsed[k], JString)
    ELSE IF k = "planet_houses" THEN dumps_optional_dict(parsed[k], JNumber)
    ELSE dumps_optional_dict(parsed[k],
           LAMBDA row : JObject([r \in DOMAIN row |-> JNumber(row[r])]))])

loads_parsed(j) ==
  [k \in DOMAIN j.v |->
    IF k \in ParsedTextKeys THEN j.v[k].v
    ELSE IF k \in ParsedOptionalTextKeys THEN loads_optional_text(j.v[k])
    ELSE IF k \in ParsedOptionalStrKeys THEN loads_optional_str(j.v[k])
    ELSE IF k \in ParsedOptionalIntKeys THEN loads_optional_int(j.v[k])
    ELSE IF k = "birth_utc_offset_minutes" THEN j.v[k].v
    ELSE IF k \in {"planet_rasi", "planet_houses"}
         THEN loads_optional_dict(j.v[k], LAMBDA x : x.v)
    ELSE loads_optional_dict(j.v[k],
           LAMBDA row : [r \in DOMAIN row.v |-> row.v[r].v])]

\* a day of calendar_30d: the dict score_day returns, with the deltas
\* _inject_deltas adds under "scores"
dumps_scores(scores) ==
  JObject([k \in DOMAIN scores |->
    IF k = "total_index" THEN JNumber(scores[k])
    ELSE JObject([dim \in DOMAIN scores[k] |-> JNumber(scores[k][dim])])])

loads_scores(j) ==
  [k \in DOMAIN j.v |->
    IF k = "total_index" THEN j.v[k].v
    ELSE [dim \in DOMAIN j.v[k].v |-> j.v[k].v[dim].v]]

dumps_day(day) ==
  JObject([k \in DOMAIN day |->
    IF k = "date" THEN JString(day[k])
    ELSE IF k = "day_score" THEN JNumber(day[k])
    ELSE IF k = "signal" THEN JString(day[k])
    ELSE IF k = "user_profile"
         THEN JObject([f \in DOMAIN day[k] |->
                IF f = "dasha_period" THEN JString(day[k][f])
                ELSE dumps_optional_str(day[k][f])])
    ELSE dumps_scores(day[k])])

loads_day(j) ==
  [k \in DOMAIN j.v |->
    IF k \in {"date", "day_score", "signal"} THEN j.v[k].v
    ELSE IF k = "user_profile"
         THEN [f \in DOMAIN j.v[k].v |->
                IF f = "dasha_period" THEN j.v[k].v[f].v
                ELSE loads_optional_str(j.v[k].v[f])]
    ELSE loads_scores(j.v[k])]

\* json.dumps(data, ensure_ascii=False, indent=2) of a profile
json_dumps(profile) ==
  JObject([k \in DOMAIN profile |->
    IF k = "calendar_tz" THEN JString(profile[k])
    ELSE IF k = "parsed" THEN dumps_parsed(profile[k])
    ELSE JArray([i \in 1..Len(profile[k]) |-> dumps_day(profile[k][i])])])

\* json.loads(text) of a profile
json_loads(j) ==
  [k \in DOMAIN j.v |->
    IF k = "calendar_tz" THEN j.v[k].v
    ELSE IF k = "parsed" THEN loads_parsed(j.v[k])
    ELSE [i \in 1..Len(j.v[k].v) |-> loads_day(j.v[k].v[i])]]

\* save_profile: the file of file_id is written, whether it was there or not
save_profile(store, file_id, profile) == (file_id :> json_dumps(profile)) @@ store

\* load_profile: the dict read from the file of file_id
load_profile(store, file_id) ==
  IF file_id \notin DOMAIN store
  THEN Raise("FileNotFoundError", "profile not found")
  ELSE Ok(json_loads(store[file_id]))

\* mutant: a profile is saved whatever the parse gave
upload_profiles_always(store, file_id, calendar_tz, parsed) ==
  (file_id :> [calendar_tz |-> calendar_tz, parsed |-> parsed.val]) @@ store

\* the profile store after the request: save_profile is reached only when
\* parse_report_text returned
upload_profiles(store, file_id, calendar_tz, parsed) ==
  IF parsed.exc # "" THEN store
  ELSE save_profile(store, file_id, profile_data(calendar_tz, parsed.val))

upload_response(file_id, calendar_tz, parsed) ==
  IF parsed.exc # ""
  THEN [status_code |-> 200, file_id |-> file_id, calendar_tz |-> calendar_tz,
        error |-> parsed.val, url |-> NoneStr]
  ELSE [status_code |-> 303, file_id |-> NoneInt, calendar_tz |-> NoneStr,
        error |-> NoneStr, url |-> <<"/profile/", file_id>>]

BaseNakLine == NakLine(<<"V","i","s","a","k","h","a">>, TRUE)
BaseBody ==
  << <<"Sun", "Ar">>, <<"Moon", "Ta">>, <<"Jupiter", "Ge">>,
     <<"Saturn", "Ta">>, <<"Mercury", "Ta">>, <<"Uranus", "Aq">> >>
BaseVimsottari ==
  [header |-> TRUE,
   lines |-> << <<>>,
                << Word("Jup"), Word("Jup"), DateText(1998, 2, 1),
                   Word("Sat"), DateText(2000, 3, 20) >>,
                << Word("Merc"), DateText(2002, 10, 6) >>,
                << Word("Sat"), Word("Sat"), DateText(2014, 2, 1),
                   Word("Merc"), DateText(2017, 2, 4) >>,
                <<>> >>]
BaseExtra == CHOOSE e \in ReportExtras : e.bav.header

\* the reports uploaded: a complete one, and the ones that differ from it
\* in one section, or in the ascendant and the body table as well
UploadReports ==
  { ReportText(nak, tz, lagna, body, vim, BaseExtra) :
      <<nak, tz, lagna, body, vim>> \in
        (ReportNakLines \X {TimeZoneLine(8, 0, 0, "East")} \X {"Sc"}
           \X {BaseBody} \X {BaseVimsottari})
        \cup ({BaseNakLine} \X ReportTimeZones \X {"Sc"}
                \X {BaseBody} \X {BaseVimsottari})
        \cup ({BaseNakLine} \X {TimeZoneLine(19, 30, 35, "West")}
                \X {"Xx"} \X {BaseBody, <<>>} \X ReportVimsottaris) }

UploadRequests(file_id) ==
  { [text |-> text, calendar_tz |-> tz[1], device_tz |-> tz[2],
     file_id |-> file_id, today |-> date(2001, 5, 7).val] :
      text \in UploadReports,
      tz \in { <<"auto", "">>, <<"Asia/Tokyo", "UTC">> } }

InitUpload ==
  /\ fn = "upload_file"
  /\ args \in UploadRequests(1)
  /\ pc = "call"
  /\ ret = Pending
  /\ uploads = <<>>
  /\ profiles = <<>>
  /\ LoaderUnused

\* the whole handler: the file is written to the upload directory, the
\* report is parsed, and either the error is returned or the profile is
\* saved and the client redirected
UploadFile ==
  /\ pc = "call"
  /\ fn = "upload_file"
  /\ LET calendar_tz == effective_calendar_tz(args.calendar_tz, args.device_tz)
         parsed == parse_report_text(args.text, args.today)
     IN  /\ uploads' = (args.file_id :> args.text) @@ uploads
         /\ profiles' = upload_profiles(profiles, args.file_id, calendar_tz, parsed)
         /\ ret' = upload_response(args.file_id, calendar_tz, parsed)
  /\ pc' = "return"
  /\ UNCHANGED <<fn, args, cache, reads, data>>

\* the next upload arrives
NextRequest ==
  /\ pc = "return"
  /\ fn = "upload_file"
  /\ Cardinality(DOMAIN uploads) < MaxUploads
  /\ args' \in UploadRequests(Cardinality(DOMAIN uploads) + 1)
  /\ pc' = "call"
  /\ ret' = Pending
  /\ UNCHANGED <<fn, cache, reads, data, uploads, profiles>>

NextUpload == UploadFile \/ NextRequest

SpecUpload == InitUpload /\ [][NextUpload]_vars

UploadEnded == fn = "upload_file" /\ pc = "return"

\* the fatal conditions of a report, each with the text of its error
FatalErrors(text) ==
  { e[2] : e \in
      { f \in { <<~(text.nakshatra.name # <<>> /\ text.nakshatra.paren
                    /\ \A i \in 1..Len(text.nakshatra.name) :
                         IsLetter(text.nakshatra.name[i])),
                  "Cannot find 'Nakshatra:' line in report">>,
                <<~time_zone_matches(text.time_zone),
                  "Cannot find 'Time Zone:' line in report">>,
                <<~text.vimsottari.header,
                  "Cannot find 'Vimsottari Dasa' section">>,
                <<text.vimsottari.header
                    /\ \A n \in 1..Len(text.vimsottari.lines) :
                         text.vimsottari.lines[n] = <<>>,
                  "Empty Vimsottari block">> } : f[1] } }

\* C17: a report without the mansion line, without a well-formed Time Zone
\* line, without the timeline header or with an empty timeline block is not
\* parsed: the upload saves no profile under its file id and answers with
\* the text of one of those errors.
C17_FatalErrorsStoreNothing ==
  UploadEnded /\ FatalErrors(args.text) # {} =>
    /\ args.file_id \notin DOMAIN profiles
    /\ ret.error \in FatalErrors(args.text)
    /\ ret.file_id = args.file_id
    /\ ret.url = NoneStr

\* a second upload, of a report with an empty timeline block, after a first
\* one that was stored: still one profile, and the error text is returned
C17_Witness ==
  /\ UploadEnded
  /\ args.file_id = 2
  /\ args.text.vimsottari = [header |-> TRUE, lines |-> << <<>>, <<>> >>]
  /\ ret.error = "Empty Vimsottari block"
  /\ DOMAIN profiles = {1}
  /\ DOMAIN uploads = {1, 2}

\* the same at the parser, over every combination of the other sections:
\* a report with a fatal condition raises ValueError with the text of one
\* of its conditions, and returns no profile
C17_FatalErrorsRaise ==
  ParseEnded /\ FatalErrors(args.text) # {} =>
    ret.exc = "ValueError" /\ ret.val \in FatalErrors(args.text)

\* ======================================================================
\* Base score: scoring.get_dasha_relationship and compute_base_score
\* ======================================================================
\* The profile is the dict read back from the profile store: a key may be
\* missing, and a house is a value with its Python type, [type, v]:
\* an int, None, or a float (a hand-edited 5.0).

PyInt(n) == [type |-> "int", v |-> n]
PyNone == [type |-> "NoneType", v |-> 0]
PyFloat(n) == [type |-> "float", v |-> n]

\* isinstance(x, int)
isinstance_int(x) == x.type = "int"

\* int(x) of a number: the fraction is dropped, towards zero
int_of_number(x) ==
  IF x[1] >= 0 THEN x[1] \div x[2] ELSE 0 - ((0 - x[1]) \div x[2])

\* mutant: without houses the relationship is "7/7", same planet or not
get_dasha_relationship_always_opposite(maha, antar, parsed_profile) ==
  LET maha_house == Get(parsed_profile, "dasha_maha_house", PyNone)
      antar_house == Get(parsed_profile, "dasha_antar_house", PyNone)
  IN  IF isinstance_int(maha_house) /\ isinstance_int(antar_house)
      THEN relationship_from_houses(maha_house.v, antar_house.v)
      ELSE "7/7"

get_dasha_relationship(maha, antar, parsed_profile) ==
  LET maha_house == Get(parsed_profile, "dasha_maha_house", PyNone)
      antar_house == Get(parsed_profile, "dasha_antar_house", PyNone)
  IN  IF isinstance_int(maha_house) /\ isinstance_int(antar_house)
      THEN relationship_from_houses(maha_house.v, antar_house.v)
      ELSE IF maha = antar THEN "1/1"
      ELSE "7/7"

compute_base_score(parsed_profile, rules) ==
  LET maha == Get(parsed_profile, "dasha_maha", "Unknown")
      antar == Get(parsed_profile, "dasha_antar", "Unknown")
      rel == get_dasha_relationship(maha, antar, parsed_profile)
      base_map == Get(rules, "dasha_relative_matrix",
                      DEFAULT_dasha_relative_matrix)
      base == int_of_number(Get(base_map, rel, RInt(70)))
  IN  Ok([maha |-> maha,
          antar |-> antar,
          dasha_relationship |-> rel,
          base_score |-> base,
          maha_house |-> Get(parsed_profile, "dasha_maha_house", PyNone),
          antar_house |-> Get(parsed_profile, "dasha_antar_house", PyNone)])

\* the profiles: each of the four keys missing or present
BasePlanets == { "Jup", "Sat" }
BaseHouseValues == { PyInt(1), PyInt(5), PyInt(7), PyInt(12), PyNone, PyFloat(5) }

BaseProfileKeys ==
  { "dasha_maha", "dasha_antar", "dasha_maha_house", "dasha_antar_house" }

BaseProfiles ==
  { [k \in keys |-> full[k]] :
      full \in [dasha_maha : BasePlanets, dasha_antar : BasePlanets,
                dasha_maha_house : BaseHouseValues,
                dasha_antar_house : BaseHouseValues],
      keys \in SUBSET BaseProfileKeys }

\* the catalogs: none, and a matrix of its own without the "7/7" code and
\* with a fractional score
BaseCatalogs ==
  { EmptyDict,
    [dasha_relative_matrix |-> ("1/1" :> <<163, 2>>) @@ ("5/9" :> RInt(99))] }

InitBase ==
  /\ fn = "compute_base_score"
  /\ args \in [parsed_profile : BaseProfiles, rules : BaseCatalogs]
  /\ pc = "call"
  /\ ret = Pending
  /\ LoaderUnused
  /\ StoreUnused

CallBase ==
  /\ pc = "call"
  /\ fn = "compute_base_score"
  /\ ret' = compute_base_score(args.parsed_profile, args.rules)
  /\ pc' = "return"
  /\ UNCHANGED <<fn, args, cache, reads, data, uploads, profiles>>

NextBase == CallBase

SpecBase == InitBase /\ [][NextBase]_vars

BaseEnded == fn = "compute_base_score" /\ pc = "return"

\* the chart carries an integer house for both planets
HasBothHouses(profile) ==
  /\ "dasha_maha_house" \in DOMAIN profile
  /\ "dasha_antar_house" \in DOMAIN profile
  /\ profile["dasha_maha_house"].type = "int"
  /\ profile["dasha_antar_house"].type = "int"

PlanetOf(profile, key) ==
  IF key \in DOMAIN profile THEN profile[key] ELSE "Unknown"

\* C20: compute_base_score always returns; when the chart does not carry an
\* integer house for both planets the relationship is "1/1" if the major
\* planet is the sub planet and "7/7" otherwise.
C20_FallbackWithoutHouses ==
  BaseEnded =>
    /\ ret.exc = ""
    /\ ~HasBothHouses(args.parsed_profile) =>
         ret.val.dasha_relationship =
           IF PlanetOf(args.parsed_profile, "dasha_maha")
                = PlanetOf(args.parsed_profile, "dasha_antar")
           THEN "1/1" ELSE "7/7"

\* a major house alone (the sub planet has none): Jup/Sat falls back to
\* "7/7", which scores 75 with the built-in matrix
C20_Witness ==
  /\ BaseEnded
  /\ args.rules = EmptyDict
  /\ DOMAIN args.parsed_profile = BaseProfileKeys
  /\ args.parsed_profile["dasha_maha"] = "Jup"
  /\ args.parsed_profile["dasha_antar"] = "Sat"
  /\ args.parsed_profile["dasha_maha_house"] = PyInt(5)
  /\ args.parsed_profile["dasha_antar_house"] = PyNone
  /\ ret.exc = ""
  /\ ret.val.dasha_relationship = "7/7"
  /\ ret.val.base_score = 75

\* the same planet twice and no house at all: "1/1", 80
C20_WitnessSamePlanet ==
  /\ BaseEnded
  /\ args.rules = EmptyDict
  /\ DOMAIN args.parsed_profile = { "dasha_maha", "dasha_antar" }
  /\ args.parsed_profile["dasha_maha"] = "Sat"
  /\ args.parsed_profile["dasha_antar"] = "Sat"
  /\ ret = Ok([maha |-> "Sat", antar |-> "Sat", dasha_relationship |-> "1/1",
               base_score |-> 80, maha_house |-> PyNone,
               antar_house |-> PyNone])

\* ======================================================================
\* Dignity and retrograde: scoring._status_multiplier
\* ======================================================================

\* The planet names of the calls: the tracked planets, an alias, a node
StatusPlanets ==
  { "Sun", "Moon", "Mars", "Merc", "Mercury", "Jup", "Ven", "Sat", "Rah" }

\* A catalog whose dignity tables overlap: Aries is the Sun's debilitation,
\* exaltation and own sign, Virgo is Mercury's exaltation and own sign, Libra
\* is Saturn's debilitation and own sign; the Sun is listed as a benefic and
\* as a malefic; the retrograde factors are 1/2 and 3/2
StatusOverlapCatalog ==
  [status_rules |->
     [exalted |-> [Sun |-> "Ar", Merc |-> "Vi"],
      own_signs |-> [Sun |-> <<"Ar", "Le">>, Merc |-> <<"Vi">>, Sat |-> <<"Li">>],
      debilitated |-> [Sun |-> "Ar", Sat |-> "Li"],
      retrograde_multiplier |-> [benefic |-> <<1, 2>>, malefic |-> <<3, 2>>],
      benefics |-> <<"Jup", "Sun">>,
      malefics |-> <<"Sun", "Sat">>]]

\* A catalog with an empty status table: no dignity, no benefic, no malefic
StatusEmptyCatalog == [status_rules |-> EmptyDict]

StatusCatalogs == { EmptyDict, StatusOverlapCatalog, StatusEmptyCatalog }

InitStatus ==
  /\ fn = "_status_multiplier"
  /\ args \in [planet : StatusPlanets, transit_rasi : Signs,
               is_retrograde : BOOLEAN, rules : StatusCatalogs]
  /\ pc = "call"
  /\ ret = Pending
  /\ LoaderUnused
  /\ StoreUnused

CallStatus ==
  /\ pc = "call"
  /\ fn = "_status_multiplier"
  /\ ret' = Ok(_status_multiplier(args.planet, args.transit_rasi,
                                  args.is_retrograde, args.rules))
  /\ pc' = "return"
  /\ UNCHANGED <<fn, args, cache, reads, data, uploads, profiles>>

NextStatus == CallStatus

SpecStatus == InitStatus /\ [][NextStatus]_vars

StatusReturned == fn = "_status_multiplier" /\ pc = "return"

\* The status table of a catalog: its own, else the built-in one
StatedStatusRules(rules) ==
  IF "status_rules" \in DOMAIN rules THEN rules["status_rules"]
  ELSE DEFAULT_status_rules

\* The canonical name of a planet, or the name itself when it has none
StatedPlanet(planet) ==
  IF planet \in DOMAIN PLANET_ALIASES THEN PLANET_ALIASES[planet] ELSE planet

\* sign is the sign the table `kind` ("debilitated", "exalted") gives planet p
IsDignitySign(kind, p, sign, rules) ==
  /\ kind \in DOMAIN StatedStatusRules(rules)
  /\ p \in DOMAIN StatedStatusRules(rules)[kind]
  /\ StatedStatusRules(rules)[kind][p] = sign

IsOwnSign(p, sign, rules) ==
  /\ "own_signs" \in DOMAIN StatedStatusRules(rules)
  /\ p \in DOMAIN StatedStatusRules(rules)["own_signs"]
  /\ \E i \in 1..Len(StatedStatusRules(rules)["own_signs"][p]) :
        StatedStatusRules(rules)["own_signs"][p][i] = sign

IsListed(kind, p, rules) ==
  /\ kind \in DOMAIN StatedStatusRules(rules)
  /\ \E i \in 1..Len(StatedStatusRules(rules)[kind]) :
        StatedStatusRules(rules)[kind][i] = p

\* The retrograde factors of a catalog, 0.8 and 1.2 unless it gives others
StatedRetroFactor(kind, rules) ==
  IF /\ "retrograde_multiplier" \in DOMAIN StatedStatusRules(rules)
     /\ kind \in DOMAIN StatedStatusRules(rules)["retrograde_multiplier"]
  THEN StatedStatusRules(rules)["retrograde_multiplier"][kind]
  ELSE IF kind = "benefic" THEN <<4, 5>> ELSE <<6, 5>>

StatedDignityBase(p, sign, rules) ==
  IF IsDignitySign("debilitated", p, sign, rules) THEN <<3, 5>>
  ELSE IF IsDignitySign("exalted", p, sign, rules) THEN <<5, 4>>
  ELSE IF IsOwnSign(p, sign, rules) THEN <<11, 10>>
  ELSE <<1, 1>>

StatedRetroMultiplier(p, is_retrograde, rules) ==
  IF ~is_retrograde THEN <<1, 1>>
  ELSE IF IsListed("benefics", p, rules) THEN StatedRetroFactor("benefic", rules)
  ELSE IF IsListed("malefics", p, rules) THEN StatedRetroFactor("malefic", rules)
  ELSE <<1, 1>>

\* C21: for every planet, transit sign and retrograde flag,
\* _status_multiplier returns base x factor, where base is 0.60 if the sign
\* is the planet's debilitation sign, else 1.25 if it is its exaltation sign,
\* else 1.10 if it is one of its own signs, else 1.0, and factor is the
\* benefic factor (0.8) when the planet is retrograde and a benefic, the
\* malefic factor (1.2) when it is retrograde and a malefic (and no benefic),
\* and 1 when it is not retrograde.
C21_DignityPrecedence ==
  StatusReturned =>
    LET p == StatedPlanet(args.planet)
        stated == RMul(StatedDignityBase(p, args.transit_rasi, args.rules),
                       StatedRetroMultiplier(p, args.is_retrograde, args.rules))
    IN  /\ REq(ret.val.m, stated)
        /\ REq(ret.val.pack.status_multiplier, stated)

\* Aries is the Sun's debilitation, exaltation and own sign, and the Sun is
\* retrograde, a benefic and a malefic: 0.60 x 1/2
C21_Witness ==
  /\ StatusReturned
  /\ args.rules = StatusOverlapCatalog
  /\ args.planet = "Sun"
  /\ args.transit_rasi = "Ar"
  /\ args.is_retrograde
  /\ ret.val.m = <<3, 10>>
  /\ ret.val.pack.is_debilitated
  /\ ret.val.pack.is_exalted
  /\ ret.val.pack.is_own_sign

\* The built-in catalog: Mercury (by its alias) retrograde in Virgo, its
\* exaltation and own sign, 1.25 x 0.8; Saturn retrograde in Aries, its
\* debilitation sign, 0.60 x 1.2
C21_WitnessBuiltIn ==
  /\ StatusReturned
  /\ args.rules = EmptyDict
  /\ args.is_retrograde
  /\ \/ args.planet = "Mercury" /\ args.transit_rasi = "Vi" /\ ret.val.m = <<1, 1>>
     \/ args.planet = "Sat" /\ args.transit_rasi = "Ar" /\ ret.val.m = <<18, 25>>

\* ======================================================================
\* Obstructors: scoring._vedha_hit
\* ======================================================================

\* The target planets of the calls: canonical names, an alias, and a name
\* that is no planet
VedhaTargets == { "Sun", "Moon", "Jup", "Ven", "Venus", "Pluto" }

\* The reference signs (None when the chart gives none)
VedhaReferences == { "Ar", "Li", NoneStr }

\* The target's house (None when it could not be computed)
VedhaTargetHouses == { 2, 3, 6, 7, 11, 12, NoneInt }

\* The transit placements, in dict order: a node first, then the Moon, the
\* Sun, Venus under its alias, Jupiter and Saturn.  Pisces is house 12 from
\* Aries and house 6 from Libra; Leo is house 5 and 11; Sagittarius 9 and 3;
\* Taurus 2 and 8; Virgo 6 and 12; "Xx" is no sign
VedhaPlacements ==
  { << <<"Rah", "Pi">>, <<"Moon", moon>>, <<"Sun", sun>>, <<"Venus", ven>>,
       <<"Jup", jup>>, <<"Sat", sat>> >> :
      moon \in { "Pi", "Le" }, sun \in { "Pi", "Ge" }, ven \in { "Pi", "Ta" },
      jup \in { "Le", "Vi" }, sat \in { "Pi", "Sg", "Xx" } }

\* The obstruction rules: the built-in ones, and rules with a missing scope,
\* a missing exception list, a missing obstructing house
VedhaRuleTables ==
  { DEFAULT_vedha_rules,
    ("11" :> [obstructor_house |-> 12,
              exceptions |-> << <<"Jupiter", "Venus">>, <<"Sun">> >>]
     @@ "12" :> [obstructor_house |-> 11, planet_scope |-> "venus_only"]
     @@ "3" :> [planet_scope |-> "all"]) }

InitVedha ==
  /\ fn = "_vedha_hit"
  /\ args \in [target_planet : VedhaTargets, target_house : VedhaTargetHouses,
               base_rasi : VedhaReferences, transit_planets : VedhaPlacements,
               vedha_rules : VedhaRuleTables]
  /\ pc = "call"
  /\ ret = Pending
  /\ LoaderUnused
  /\ StoreUnused

CallVedha ==
  /\ pc = "call"
  /\ fn = "_vedha_hit"
  /\ ret' = Ok(_vedha_hit(args.target_planet, args.target_house, args.base_rasi,
                          args.transit_planets, args.vedha_rules))
  /\ pc' = "return"
  /\ UNCHANGED <<fn, args, cache, reads, data, uploads, profiles>>

NextVedha == CallVedha

SpecVedha == InitVedha /\ [][NextVedha]_vars

VedhaReturned == fn = "_vedha_hit" /\ pc = "return"

VedhaReported == VedhaReturned /\ ret.val.hit

\* C22: the obstructor reported by _vedha_hit is never the target planet
\* itself, never the Moon and never a node (Rahu, Ketu), and it occupies the
\* obstructing house of the rule registered for the target's house, counted
\* from the reference sign the target's house was counted from.
C22_EligibleObstructor ==
  VedhaReported =>
    /\ ret.val.obstructor # StatedPlanet(args.target_planet)
    /\ ret.val.obstructor \notin { "Moon", "Rah", "Ket", "Rahu", "Ketu" }
    /\ args.base_rasi \in Signs
    /\ Str(args.target_house) \in DOMAIN args.vedha_rules
    /\ "obstructor_house" \in DOMAIN args.vedha_rules[Str(args.target_house)]
    /\ ret.val.obstructor_house
         = args.vedha_rules[Str(args.target_house)]["obstructor_house"]
    /\ ret.val.target_house = args.target_house
    /\ \E i \in 1..Len(args.transit_planets) :
         /\ StatedPlanet(args.transit_planets[i][1]) = ret.val.obstructor
         /\ args.transit_planets[i][2] \in Signs
         /\ StatedHouse(args.base_rasi, args.transit_planets[i][2])
              = ret.val.obstructor_house

\* Venus in house 3 from Aries, with the node, the Moon, the Sun, Venus
\* itself and Saturn all in Pisces (house 12): the node, the Moon and Venus
\* are passed over and the Sun is reported
C22_Witness ==
  /\ VedhaReported
  /\ args.vedha_rules = DEFAULT_vedha_rules
  /\ args.target_planet = "Ven"
  /\ args.target_house = 3
  /\ args.base_rasi = "Ar"
  /\ \A i \in { 1, 2, 3, 4, 6 } : args.transit_planets[i][2] = "Pi"
  /\ ret.val.obstructor = "Sun"
  /\ ret.val.obstructor_house = 12

\* The Moon as target in house 3 from Aries with the node, the Moon, the Sun
\* and Venus in Pisces: the obstructor is the Sun, not the Moon
C22_WitnessMoonTarget ==
  /\ VedhaReported
  /\ args.vedha_rules = DEFAULT_vedha_rules
  /\ args.target_planet = "Moon"
  /\ args.target_house = 3
  /\ args.base_rasi = "Ar"
  /\ args.transit_planets[2] = <<"Moon", "Pi">>
  /\ args.transit_planets[3] = <<"Sun", "Pi">>
  /\ ret.val.obstructor = "Sun"

\* Only passed-over bodies in the obstructing house: nothing is reported
C22_WitnessNoObstructor ==
  /\ VedhaReturned
  /\ ~ret.val.hit
  /\ args.vedha_rules = DEFAULT_vedha_rules
  /\ args.target_planet = "Venus"
  /\ args.target_house = 3
  /\ args.base_rasi = "Ar"
  /\ args.transit_planets[2] = <<"Moon", "Pi">>
  /\ args.transit_planets[3] = <<"Sun", "Ge">>
  /\ args.transit_planets[4] = <<"Venus", "Pi">>
  /\ args.transit_planets[6] = <<"Sat", "Sg">>

\* ======================================================================
\* Obstruction narrative of compute_gochara_v2
\* ======================================================================

\* Pass k's planet is obstructed in a view
PassObstructed(k, view) ==
  ObstructedInView(ret.passes[k].planet, ret.passes[k].transit_rasi, view,
                   args.parsed_profile, args.feat, args.rules)

\* Pass k has a strong obstruction: one detected in the Moon-based view
StrongObstruction(k) == PassObstructed(k, "chandra")

\* Pass k has a weak obstruction: one detected in the ascendant-based view only
WeakObstruction(k) == PassObstructed(k, "lagna") /\ ~PassObstructed(k, "chandra")

\* Pass k has a strong obstruction that nullifies a positive blended score
StrongSuppression(k) ==
  StrongObstruction(k) /\ RLt(RInt(0), BlendedScore(ret.passes[k], args.rules))

NoMessage == <<>>

\* The message of a strong obstruction of planet p: p's "strong" template
StrongMessage(p) == <<"template", p, "strong">>

\* C23 as stated: a top-level message exactly when some planet of some
\* dimension has an obstruction detected in the Moon-based view.
C23_MessageIffStrongDetected ==
  GocharaReturned =>
    (ret.val.obstruction_message # NoMessage
       <=> \E k \in 1..Len(ret.passes) : StrongObstruction(k))

\* What the code does: compute_gochara_v2 returns a top-level obstruction
\* message exactly when some planet of some dimension has a positive blended
\* score and an obstruction detected in the Moon-based view (only then is the
\* obstruction recorded); the message is the one of the
\* first such pass in dimension-then-planet order; a planet obstructed in the
\* ascendant-based view only never gives the message and is shown obstructed
\* in the per-planet diagnostics.
C23_ObstructionNarrative ==
  GocharaReturned =>
    /\ ret.val.obstruction_message # NoMessage
         <=> \E k \in 1..Len(ret.passes) : StrongSuppression(k)
    /\ \A k \in 1..Len(ret.passes) :
         (StrongSuppression(k) /\ \A j \in 1..(k - 1) : ~StrongSuppression(j))
           => ret.val.obstruction_message = StrongMessage(ret.passes[k].planet)
    /\ \A k \in 1..Len(ret.passes) :
         WeakObstruction(k) =>
           /\ ret.val.vedha_impact[ret.passes[k].planet].is_obstructed
           /\ ret.val.vedha_impact[ret.passes[k].planet].basis = <<"lagna">>
           /\ (\A j \in 1..Len(ret.passes) : ~StrongSuppression(j))
                => ret.val.obstruction_message = NoMessage

\* a strong obstruction after a weak one that was suppressed: the message is
\* the strong one's
C23_Witness ==
  /\ GocharaReturned
  /\ \E k \in 1..Len(ret.passes) :
       /\ StrongSuppression(k)
       /\ \A j \in 1..(k - 1) : ~StrongSuppression(j)
       /\ \E j \in 1..(k - 1) :
            /\ WeakObstruction(j)
            /\ RLt(RInt(0), BlendedScore(ret.passes[j], args.rules))
       /\ ret.val.obstruction_message = StrongMessage(ret.passes[k].planet)

\* weak obstructions only, one of them of a positive score: no message
C23_WitnessWeakOnly ==
  /\ GocharaReturned
  /\ \E k \in 1..Len(ret.passes) :
       /\ WeakObstruction(k)
       /\ RLt(RInt(0), BlendedScore(ret.passes[k], args.rules))
       /\ ret.val.vedha_impact[ret.passes[k].planet].is_obstructed
  /\ \A k \in 1..Len(ret.passes) : ~StrongObstruction(k)
  /\ ret.val.obstruction_message = NoMessage

\* an obstruction detected in the Moon-based view on a planet whose blended
\* score is not positive, and no message
C23_StrongDetectedNoMessage ==
  /\ GocharaReturned
  /\ \E k \in 1..Len(ret.passes) :
       /\ StrongObstruction(k)
       /\ ret.val.vedha_impact[ret.passes[k].planet].is_obstructed
       /\ "chandra" \in ListSet(ret.val.vedha_impact[ret.passes[k].planet].basis)
  /\ ret.val.obstruction_message = NoMessage

\* ======================================================================
\* Dominant transits of compute_gochara_v2
\* ======================================================================

\* The planets configured for a dimension, as <<name, weight>> in
\* configuration order: the catalog's table, else the built-in one
StatedDimensionPlanets(dim, rules) ==
  LET table == IF "dimension_weights" \in DOMAIN rules
               THEN rules["dimension_weights"]
               ELSE DEFAULT_dimension_weights
  IN  IF dim \in DOMAIN table /\ "planets" \in DOMAIN table[dim]
      THEN table[dim]["planets"]
      ELSE <<>>

\* The transit sign the daily features give a tracked planet, if any
HasTransitSign(p, feat) ==
  /\ "planet_rasi" \in DOMAIN feat
  /\ \E i \in 1..Len(feat["planet_rasi"]) : feat["planet_rasi"][i][1] = p

\* The positions, in the configuration of a dimension, of the planets that
\* resolve to a tracked planet with a transit sign
Contributing(dim, rules, feat) ==
  { j \in 1..Len(StatedDimensionPlanets(dim, rules)) :
      /\ StatedDimensionPlanets(dim, rules)[j][1] \in DOMAIN PLANET_ALIASES
      /\ HasTransitSign(PLANET_ALIASES[StatedDimensionPlanets(dim, rules)[j][1]], feat) }

\* The heaviest of them, the first in configuration order on a tie
Heaviest(dim, rules, feat) ==
  CHOOSE j \in Contributing(dim, rules, feat) :
    \A i \in Contributing(dim, rules, feat) :
      LET wi == StatedDimensionPlanets(dim, rules)[i][2]
          wj == StatedDimensionPlanets(dim, rules)[j][2]
      IN  IF i < j THEN RLt(wi, wj) ELSE RLe(wi, wj)

\* The positions in key_transits of the records of a dimension
RecordsOf(dim) ==
  { i \in 1..Len(ret.val.key_transits) : ret.val.key_transits[i].dimension = dim }

DimensionPosition(dim) == CHOOSE i \in 1..Len(DIMENSIONS) : DIMENSIONS[i] = dim

\* zero or one record per dimension, in dimension order
OneRecordPerDimensionInOrder ==
  /\ \A dim \in DimensionSet : Cardinality(RecordsOf(dim)) <= 1
  /\ \A i \in 1..Len(ret.val.key_transits) :
       /\ ret.val.key_transits[i].dimension \in DimensionSet
       /\ \A j \in (i + 1)..Len(ret.val.key_transits) :
            DimensionPosition(ret.val.key_transits[i].dimension)
              < DimensionPosition(ret.val.key_transits[j].dimension)

\* the record of a dimension is that of its heaviest contributing planet
RecordIsHeaviest(dim) ==
  /\ Cardinality(RecordsOf(dim)) = 1
  /\ \A i \in RecordsOf(dim) :
       ret.val.key_transits[i].planet
         = PLANET_ALIASES[StatedDimensionPlanets(dim, args.rules)
                            [Heaviest(dim, args.rules, args.feat)][1]]

\* C24 as stated: zero or one dominant-transit record per dimension, in
\* dimension order; exactly one, that of the heaviest-weighted contributing
\* planet (the first in configuration order on a tie), if some configured
\* planet resolves to a tracked planet with a transit sign; none otherwise.
C24_DominantTransit ==
  GocharaReturned =>
    /\ OneRecordPerDimensionInOrder
    /\ \A dim \in DimensionSet :
         IF Contributing(dim, args.rules, args.feat) # {}
         THEN RecordIsHeaviest(dim)
         ELSE RecordsOf(dim) = {}

\* What the code does: as stated, except that a dimension gets its record
\* only if the heaviest contributing weight is greater than -1, the value
\* dominant_w starts from.
C24_DominantTransitAboveSentinel ==
  GocharaReturned =>
    /\ OneRecordPerDimensionInOrder
    /\ \A dim \in DimensionSet :
         IF /\ Contributing(dim, args.rules, args.feat) # {}
            /\ RLt(RInt(-1), StatedDimensionPlanets(dim, args.rules)
                               [Heaviest(dim, args.rules, args.feat)][2])
         THEN RecordIsHeaviest(dim)
         ELSE RecordsOf(dim) = {}

\* The Moon (weight -1) and Mercury (weight -2) both contribute to emotion
\* and the dimension has no record, while career (a tie at -1/2) records the
\* Sun and wealth (weight 0) records Jupiter
C24_NoRecordForContributingPlanets ==
  /\ GocharaReturned
  /\ args.rules = GocharaNegativeCatalog
  /\ Contributing("emotion", args.rules, args.feat) = { 1, 2 }
  /\ RecordsOf("emotion") = {}
  /\ ret.val.gochara_modifiers["emotion"] # RInt(0)
  /\ Len(ret.val.key_transits) = 2
  /\ ret.val.key_transits[1].dimension = "wealth"
  /\ ret.val.key_transits[1].planet = "Jup"
  /\ ret.val.key_transits[2].dimension = "career"
  /\ ret.val.key_transits[2].planet = "Sun"

\* ======================================================================
\* Gochara modifiers of compute_gochara_v2
\* ======================================================================

GocharaEnded == fn = "compute_gochara_v2" /\ pc = "return"

\* The house-score table of a catalog: its own, else the built-in one
StatedHouseScores(rules) ==
  IF "gochara_rules" \in DOMAIN rules /\ "house_scores" \in DOMAIN rules["gochara_rules"]
  THEN rules["gochara_rules"]["house_scores"]
  ELSE DEFAULT_house_scores

\* The transit score of a sign in a view: that of its house counted from the
\* view's reference sign, under the house number or its decimal string; 0
\* when the chart has no reference sign or the table has no score
StatedViewScore(view, sign, parsed_profile, rules) ==
  LET reference == StatedReference(view, parsed_profile)
      table == StatedHouseScores(rules)
  IN  IF reference \notin Signs THEN <<0, 1>>
      ELSE IF StatedHouse(reference, sign) \in DOMAIN table.int
      THEN table.int[StatedHouse(reference, sign)]
      ELSE IF Str(StatedHouse(reference, sign)) \in DOMAIN table.str
      THEN table.str[Str(StatedHouse(reference, sign))]
      ELSE <<0, 1>>

\* The sign the daily features place a tracked planet in
TransitSign(p, feat) ==
  feat["planet_rasi"][CHOOSE i \in 1..Len(feat["planet_rasi"]) :
                        feat["planet_rasi"][i][1] = p][2]

IsRetrograde(p, feat) ==
  /\ "planet_status" \in DOMAIN feat
  /\ p \in DOMAIN feat["planet_status"]
  /\ feat["planet_status"][p]["is_retrograde"]

\* The final score of tracked planet p in a dimension: the blended house
\* score, 0 in its place when it is positive and p is obstructed in a view,
\* times the dignity and retrograde multiplier
StatedFinalScore(dim, p, parsed_profile, feat, rules) ==
  LET sign == TransitSign(p, feat)
      blended ==
        RAdd(RMul(StatedViewScore("lagna", sign, parsed_profile, rules),
                  StatedViewWeight("lagna", dim, rules)),
             RMul(StatedViewScore("chandra", sign, parsed_profile, rules),
                  StatedViewWeight("chandra", dim, rules)))
      obstructed ==
        \E view \in { "lagna", "chandra" } :
          ObstructedInView(p, sign, view, parsed_profile, feat, rules)
      after == IF obstructed /\ RLt(<<0, 1>>, blended) THEN <<0, 1>> ELSE blended
  IN  RMul(after,
           RMul(StatedDignityBase(p, sign, rules),
                StatedRetroMultiplier(p, IsRetrograde(p, feat), rules)))

\* The sum of weight x final score over the configured planets of a
\* dimension from position j on, the planets that do not contribute skipped
RECURSIVE StatedModifier(_, _, _, _, _)
StatedModifier(dim, j, parsed_profile, feat, rules) ==
  IF j > Len(StatedDimensionPlanets(dim, rules)) THEN <<0, 1>>
  ELSE IF j \notin Contributing(dim, rules, feat)
  THEN StatedModifier(dim, j + 1, parsed_profile, feat, rules)
  ELSE RAdd(RMul(StatedDimensionPlanets(dim, rules)[j][2],
                 StatedFinalScore(dim, PLANET_ALIASES[StatedDimensionPlanets(dim, rules)[j][1]],
                                  parsed_profile, feat, rules)),
            StatedModifier(dim, j + 1, parsed_profile, feat, rules))

\* every sign of the daily features is a sign code
TransitSignsValid(feat) ==
  /\ "planet_rasi" \in DOMAIN feat =>
       \A i \in 1..Len(feat["planet_rasi"]) : feat["planet_rasi"][i][2] \in Signs
  /\ "moon_rasi" \in DOMAIN feat => feat["moon_rasi"] \in Signs

\* C25: for every dimension the modifier returned by compute_gochara_v2 is
\* the sum, over the dimension's configured planets, of weight x final score
\* (blended house score after obstruction, times the dignity/retrograde
\* multiplier); a configured planet whose name is no known alias, or that has
\* no transit sign, is skipped and the call does not raise; a house with no
\* configured transit score counts 0.
C25_GocharaModifier ==
  /\ GocharaReturned =>
       \A dim \in DimensionSet :
         REq(ret.val.gochara_modifiers[dim],
             StatedModifier(dim, 1, args.parsed_profile, args.feat, args.rules))
  /\ (GocharaEnded /\ TransitSignsValid(args.feat)) => ret.exc = ""

\* The custom catalog, natal Moon in Libra: wealth is configured with
\* Jupiter, Venus and Pluto, which is no planet and is skipped; Venus in
\* Pisces is in house 12 from Aries (score -1/10 under the integer key) and
\* house 6 from Libra (score 1/5 under the key "6")
C25_Witness ==
  /\ GocharaReturned
  /\ args.rules = GocharaCustomCatalog
  /\ args.parsed_profile = [lagna_rasi |-> "Ar", natal_moon_rasi |-> "Li"]
  /\ Len(StatedDimensionPlanets("wealth", args.rules)) = 3
  /\ Contributing("wealth", args.rules, args.feat) = { 1, 2 }
  /\ TransitSign("Ven", args.feat) = "Pi"
  /\ StatedViewScore("lagna", "Pi", args.parsed_profile, args.rules) = <<-1, 10>>
  /\ StatedViewScore("chandra", "Pi", args.parsed_profile, args.rules) = <<1, 5>>
  /\ ~REq(ret.val.gochara_modifiers["wealth"], <<0, 1>>)

\* Features without any placement: every planet is skipped, every modifier
\* is 0, nothing is raised
C25_WitnessNoTransitSign ==
  /\ GocharaReturned
  /\ "planet_rasi" \notin DOMAIN args.feat
  /\ args.rules = EmptyDict
  /\ \A dim \in DimensionSet :
       /\ Len(StatedDimensionPlanets(dim, args.rules)) = 2
       /\ Contributing(dim, args.rules, args.feat) = {}
       /\ ret.val.gochara_modifiers[dim] = <<0, 1>>

\* ======================================================================
\* Daily features: daily_features.get_daily_features_swe
\* ======================================================================
\* The longitudes are Python floats.  A float is a rational with FloatBits
\* significant bits (binary64 has 53; the model keeps its rounding rule,
\* round to nearest with ties to even, at a smaller precision), and each
\* float operation of the function is the exact operation followed by the
\* rounding the machine does.

FloatBits == 11

RECURSIVE Pow2(_)
Pow2(k) == IF k = 0 THEN 1 ELSE 2 * Pow2(k - 1)

\* 2^e as a rational, for e of either sign
Pow2R(e) == IF e >= 0 THEN <<Pow2(e), 1>> ELSE <<1, Pow2(0 - e)>>

RAbs(x) == <<Abs(x[1]), x[2]>>

\* the binary exponent of x # 0: 2^e <= |x| < 2^(e + 1)
FloatExponent(x) ==
  CHOOSE e \in -11..9 : RLe(Pow2R(e), RAbs(x)) /\ RLt(RAbs(x), Pow2R(e + 1))

\* the distance between neighbouring floats around x
FloatUlp(x) == Pow2R(FloatExponent(x) - FloatBits + 1)

\* the float nearest to x, a tie going to the even one
RoundToFloat(x) ==
  IF x[1] = 0 THEN <<0, 1>>
  ELSE LET q == RoundHalfEven(RDiv(RAbs(x), FloatUlp(x)))
           r == RMul(RInt(q), FloatUlp(x))
       IN  IF x[1] < 0 THEN RSub(<<0, 1>>, r) ELSE r

\* C fmod(x, y) for y > 0: exact, with the sign of x
float_fmod(x, y) ==
  LET q == Floor(RDiv(RAbs(x), y))
      r == RSub(RAbs(x), RMul(RInt(q), y))
  IN  IF x[1] < 0 THEN RSub(<<0, 1>>, r) ELSE r

\* x % y of two floats, y > 0: fmod, and mod += y when mod is negative,
\* an addition that is rounded
float_mod(x, y) ==
  IF float_fmod(x, y)[1] < 0
  THEN RoundToFloat(RAdd(float_fmod(x, y), y))
  ELSE float_fmod(x, y)

\* int(x // y) of two floats, y > 0
float_floordiv(x, y) == Floor(RDiv(x, y))

\* 360.0 / 27.0
NakSpan == RoundToFloat(Rat(360, 27))

\* list[index] of a list of n elements, 0 <= index
ListIndexInRange(list, index) == index + 1 \in 1..Len(list)

\* planet_ids, in dict order
planet_ids == <<"Sun", "Moon", "Mars", "Merc", "Jup", "Ven", "Sat">>

\* the sign index of a planet in the planet loop
planet_idx(pos) == float_floordiv(float_mod(pos.lon, RInt(360)), RInt(30))

\* get_daily_features_swe(d, natal_nak), swe.calc_ut giving positions[name]
\* = [lon, speed] for the bodies at noon of d
get_daily_features_swe(positions) ==
  LET moon_lon == float_mod(positions["Moon"].lon, RInt(360))
      sun_lon == float_mod(positions["Sun"].lon, RInt(360))
      rasi_idx == float_floordiv(moon_lon, RInt(30))
      nak_idx == float_floordiv(moon_lon, NakSpan)
      diff == float_mod(RoundToFloat(RSub(moon_lon, sun_lon)), RInt(360))
      tithi == float_floordiv(diff, RInt(12)) + 1
  IN  IF ~ListIndexInRange(RASI_ORDER, rasi_idx)
      THEN Raise("IndexError", "list index out of range")
      ELSE IF ~ListIndexInRange(NAK_ORDER, nak_idx)
      THEN Raise("IndexError", "list index out of range")
      ELSE IF \E i \in 1..Len(planet_ids) :
                ~ListIndexInRange(RASI_ORDER, planet_idx(positions[planet_ids[i]]))
      THEN Raise("IndexError", "list index out of range")
      ELSE Ok([transit_nakshatra |-> NAK_ORDER[nak_idx + 1],
               moon_rasi |-> RASI_ORDER[rasi_idx + 1],
               tithi |-> tithi,
               planet_rasi |->
                 [i \in 1..Len(planet_ids) |->
                    <<planet_ids[i],
                      RASI_ORDER[planet_idx(positions[planet_ids[i]]) + 1]>>],
               planet_status |->
                 [name \in ListSet(planet_ids) |->
                    [is_retrograde |-> positions[name].speed[1] < 0]]])

\* The Moon's longitudes: sign and mansion boundaries, the last float below
\* 360, 360 and beyond, and longitudes below 0 by less and by more than the
\* spacing of the floats around 360
MoonLongitudes ==
  { RInt(0), RInt(1), <<119, 4>>, RInt(40), RInt(80), <<1439, 4>>, RInt(360),
    RInt(400), <<-1, 1024>>, RInt(-30), <<-1, 2>> }

SunLongitudes ==
  { RInt(0), RInt(1), <<1025, 1024>>, RInt(180), <<1439, 4>>, <<-1, 1024>> }

\* a direct and a retrograde position
PlanetPositions ==
  { [lon |-> RInt(45), speed |-> RInt(1)], [lon |-> RInt(200), speed |-> <<-1, 10>>] }

SaturnPositions ==
  { [lon |-> RInt(200), speed |-> RInt(1)], [lon |-> <<-1, 1024>>, speed |-> <<-1, 10>>] }

EphemerisPositions ==
  { [Sun |-> [lon |-> sun, speed |-> RInt(1)],
     Moon |-> [lon |-> moon, speed |-> RInt(13)],
     Mars |-> mars, Merc |-> merc, Jup |-> jup, Ven |-> ven, Sat |-> sat] :
      sun \in SunLongitudes, moon \in MoonLongitudes,
      mars \in PlanetPositions, merc \in PlanetPositions,
      jup \in PlanetPositions, ven \in PlanetPositions,
      sat \in SaturnPositions }

InitFeatures ==
  /\ fn = "get_daily_features_swe"
  /\ args \in [positions : EphemerisPositions]
  /\ pc = "call"
  /\ ret = Pending
  /\ LoaderUnused
  /\ StoreUnused

CallFeatures ==
  /\ pc = "call"
  /\ fn = "get_daily_features_swe"
  /\ ret' = get_daily_features_swe(args.positions)
  /\ pc' = "return"
  /\ UNCHANGED <<fn, args, cache, reads, data, uploads, profiles>>

NextFeatures == CallFeatures

SpecFeatures == InitFeatures /\ [][NextFeatures]_vars

FeaturesEnded == fn = "get_daily_features_swe" /\ pc = "return"

\* x mod 360 of a real number
Mod360(x) == RSub(x, RMul(RInt(Floor(RDiv(x, RInt(360)))), RInt(360)))

\* floor(longitude / 30) mod 12
StatedSignIndex(lon) == Floor(RDiv(lon, RInt(30))) % 12

\* floor(longitude / (360/27)) mod 27
StatedMansionIndex(lon) == Floor(RDiv(lon, Rat(360, 27))) % 27

\* floor(((moonLongitude - sunLongitude) mod 360) / 12) + 1
StatedLunarDay(moon, sun) == Floor(RDiv(Mod360(RSub(moon, sun)), RInt(12))) + 1

\* C26 as stated: for every Moon and Sun longitude the call returns; the
\* Moon's sign is RASI_ORDER[floor(longitude / 30) mod 12], the lunar mansion
\* is NAK_ORDER[floor(longitude / (360/27)) mod 27] and the lunar day is
\* floor(((moon - sun) mod 360) / 12) + 1, in 1..30.
C26_FeatureIndices ==
  FeaturesEnded =>
    /\ ret.exc = ""
    /\ ret.val.moon_rasi
         = RASI_ORDER[StatedSignIndex(args.positions["Moon"].lon) + 1]
    /\ ret.val.transit_nakshatra
         = NAK_ORDER[StatedMansionIndex(args.positions["Moon"].lon) + 1]
    /\ ret.val.tithi
         = StatedLunarDay(args.positions["Moon"].lon, args.positions["Sun"].lon)
    /\ ret.val.tithi \in 1..30

\* The lunar mansion and the lunar day are always in range, and the signs
\* are whenever the call returns
C26_ReturnedInRange ==
  (FeaturesEnded /\ ret.exc = "") =>
    /\ ret.val.moon_rasi \in Signs
    /\ ret.val.transit_nakshatra \in ListSet(NAK_ORDER)
    /\ ret.val.tithi \in 1..31

\* a Moon longitude just below 0 is normalised to 360.0 and the sign lookup
\* RASI_ORDER[12] raises
C26_SignIndexOutOfRange ==
  /\ FeaturesEnded
  /\ args.positions["Moon"].lon = <<-1, 1024>>
  /\ float_mod(args.positions["Moon"].lon, RInt(360)) = RInt(360)
  /\ ret = Raise("IndexError", "list index out of range")

\* the Moon just behind the Sun: the lunar day is 31
C26_LunarDay31 ==
  /\ FeaturesEnded
  /\ args.positions["Moon"].lon = RInt(1)
  /\ args.positions["Sun"].lon = <<1025, 1024>>
  /\ ret.exc = ""
  /\ ret.val.tithi = 31
  /\ StatedLunarDay(args.positions["Moon"].lon, args.positions["Sun"].lon) = 30

\* the Moon at 40 degrees, the start of the fourth mansion: the third is
\* returned, 360.0 / 27.0 being a little more than 40/3
C26_MansionBelowFloor ==
  /\ FeaturesEnded
  /\ args.positions["Moon"].lon = RInt(40)
  /\ ret.exc = ""
  /\ RLt(Rat(360, 27), NakSpan)
  /\ StatedMansionIndex(args.positions["Moon"].lon) = 3
  /\ ret.val.transit_nakshatra = NAK_ORDER[3]

\* ======================================================================
\* Strength matrix: jh_report_parser._parse_bav_rasi_table
\* ======================================================================

MaxMatrixLines == 3

\* The lines after the table header, as <<label, tail>>: a full row with
\* starred cells; a row with a 13th number; a row of 11 numbers; one with a
\* cell that is no number and two cells written without a blank between
\* them; a second Sun row; a row with the scores 9 and 10; a row with
\* another label; the terminator; a blank line
MatrixLines ==
  { <<"Su", BavTail(<<3, 2, 2, 4, 5, 5, 5, 2, 4, 6, 5, 0>>, {1, 12})>>,
    <<"Ju", BavTail(<<5, 4, 5, 6, 5, 4, 4, 5, 5, 4, 5, 8, 56>>, {2})>>,
    <<"Ma", BavTail(<<4, 4, 3, 3, 2, 1, 5, 6, 2, 3, 4>>, {})>>,
    <<"Me", <<"-", " ", "3", "*", "2", " ">>
              \o BavTail(<<1, 1, 2, 2, 3, 3, 4, 4, 5, 5>>, {10})>>,
    <<"Su", BavTail(<<1, 1, 1, 1, 1, 1, 1, 1, 1, 1, 1, 1>>, {})>>,
    <<"Ve", BavTail(<<9, 10, 5, 6, 5, 4, 4, 5, 5, 4, 5, 4>>, {1})>>,
    <<"As", BavTail(<<5, 4, 5, 6, 5, 4, 4, 5, 5, 4, 5, 4>>, {})>>,
    <<"Sodhya Pinda", <<>> >>,
    <<"", <<>> >> }

RECURSIVE MatrixBlocks(_)
MatrixBlocks(n) ==
  IF n = 0 THEN { <<>> }
  ELSE MatrixBlocks(n - 1)
         \cup { Append(b, l) : b \in { c \in MatrixBlocks(n - 1) : Len(c) = n - 1 },
                               l \in MatrixLines }

\* Reports as far as _parse_bav_rasi_table reads them: without the header
\* line, or with it and up to MaxMatrixLines lines after it
MatrixTexts ==
  { [bav |-> [header |-> FALSE, rows |-> <<>>]] }
    \cup { [bav |-> [header |-> TRUE, rows |-> rows]] :
             rows \in MatrixBlocks(MaxMatrixLines) }

InitMatrix ==
  /\ fn = "_parse_bav_rasi_table"
  /\ args \in [text : MatrixTexts]
  /\ pc = "call"
  /\ ret = Pending
  /\ LoaderUnused
  /\ StoreUnused

CallMatrix ==
  /\ pc = "call"
  /\ fn = "_parse_bav_rasi_table"
  /\ ret' = Ok(_parse_bav_rasi_table(args.text))
  /\ pc' = "return"
  /\ UNCHANGED <<fn, args, cache, reads, data, uploads, profiles>>

NextMatrix == CallMatrix

SpecMatrix == InitMatrix /\ [][NextMatrix]_vars

MatrixReturned == fn = "_parse_bav_rasi_table" /\ pc = "return"

\* The numeric cells of a row's text: its maximal runs of digits, as numbers
\* (a star after a run is an emphasis marker and no part of the number)
RECURSIVE StatedCells(_)
StatedCells(tail) ==
  IF tail = <<>> THEN <<>>
  ELSE IF ~IsDigit(tail[1]) THEN StatedCells(Tail(tail))
  ELSE LET k == CHOOSE k \in 1..Len(tail) :
                  /\ \A i \in 1..k : IsDigit(tail[i])
                  /\ k < Len(tail) => ~IsDigit(tail[k + 1])
       IN  <<DigitsValue(SubSeq(tail, 1, k))>> \o StatedCells(SubSeq(tail, k + 1, Len(tail)))

\* The lines before the terminator
BeforeTerminator(rows) ==
  IF \E n \in 1..Len(rows) : rows[n][1] = "Sodhya Pinda"
  THEN SubSeq(rows, 1, (CHOOSE n \in 1..Len(rows) :
                          /\ rows[n][1] = "Sodhya Pinda"
                          /\ \A m \in 1..(n - 1) : rows[m][1] # "Sodhya Pinda") - 1)
  ELSE rows

\* The lines of planet label `label` that count: before the terminator, with
\* at least 12 numeric cells
CountingRows(label, rows) ==
  { n \in 1..Len(BeforeTerminator(rows)) :
      rows[n][1] = label /\ Len(StatedCells(rows[n][2])) >= 12 }

\* C27 as stated: every stored planet row maps each of the 12 signs, in the
\* order Ar..Pi, to an integer score in 0..8 with emphasis markers stripped;
\* rows with fewer than 12 numeric cells are skipped, rows after the
\* terminator are ignored, and a report without the block yields no matrix.
C27_MatrixShape ==
  MatrixReturned =>
    /\ ret.exc = ""
    /\ ~args.text.bav.header => ret.val = EmptyDict
    /\ args.text.bav.header =>
         /\ DOMAIN ret.val
              = { row_to_planet[label] :
                    label \in { l \in DOMAIN row_to_planet :
                                  CountingRows(l, args.text.bav.rows) # {} } }
         /\ \A label \in DOMAIN row_to_planet :
              \A n \in CountingRows(label, args.text.bav.rows) :
                (\A m \in CountingRows(label, args.text.bav.rows) : m <= n) =>
                  /\ DOMAIN ret.val[row_to_planet[label]] = Signs
                  /\ \A i \in 1..12 :
                       /\ ret.val[row_to_planet[label]][RASI_ORDER[i]]
                            = StatedCells(args.text.bav.rows[n][2])[i]
                       /\ ret.val[row_to_planet[label]][RASI_ORDER[i]] \in 0..8

\* What the code does: the same without the range of the scores, which are
\* the numbers the report gives
C27_MatrixRows ==
  MatrixReturned =>
    /\ ret.exc = ""
    /\ ~args.text.bav.header => ret.val = EmptyDict
    /\ args.text.bav.header =>
         /\ DOMAIN ret.val
              = { row_to_planet[label] :
                    label \in { l \in DOMAIN row_to_planet :
                                  CountingRows(l, args.text.bav.rows) # {} } }
         /\ \A label \in DOMAIN row_to_planet :
              \A n \in CountingRows(label, args.text.bav.rows) :
                (\A m \in CountingRows(label, args.text.bav.rows) : m <= n) =>
                  /\ DOMAIN ret.val[row_to_planet[label]] = Signs
                  /\ \A i \in 1..12 :
                       ret.val[row_to_planet[label]][RASI_ORDER[i]]
                         = StatedCells(args.text.bav.rows[n][2])[i]

\* a Venus row "9*  10  5 ..." is stored with the scores 9 and 10
C27_ScoreAboveEight ==
  /\ MatrixReturned
  /\ args.text.bav.header
  /\ "Ven" \in DOMAIN ret.val
  /\ ret.val["Ven"]["Ar"] = 9
  /\ ret.val["Ven"]["Ta"] = 10

\* a starred Sun row, a Mars row of 11 numbers, the terminator and rows
\* after it: the Sun row alone is stored, stars stripped
C27_WitnessRows ==
  /\ MatrixReturned
  /\ args.text.bav.header
  /\ Len(args.text.bav.rows) = 3
  /\ args.text.bav.rows[1][1] = "Su"
  /\ args.text.bav.rows[1][2][2] = "*"
  /\ args.text.bav.rows[2][1] = "Ma"
  /\ args.text.bav.rows[3][1] = "Sodhya Pinda"
  /\ DOMAIN ret.val = { "Sun" }
  /\ ret.val["Sun"]["Ar"] = 3
  /\ ret.val["Sun"]["Pi"] = 0

\* ======================================================================
\* Obstruction and scores that are not positive
\* ======================================================================

\* Pass k's planet is obstructed in some view
PassObstructedAnyView(k) == PassObstructed(k, "lagna") \/ PassObstructed(k, "chandra")

\* The passes a detected obstruction must leave alone
NonPositiveObstructed(k) ==
  /\ PassObstructedAnyView(k)
  /\ RLe(BlendedScore(ret.passes[k], args.rules), RInt(0))

\* The modifier a dimension would have were nothing obstructed: the sum
\* over its passes of weight x blended score x multiplier
RECURSIVE UnobstructedModifier(_, _)
UnobstructedModifier(dim, k) ==
  IF k > Len(ret.passes) THEN <<0, 1>>
  ELSE IF ret.passes[k].dimension # dim THEN UnobstructedModifier(dim, k + 1)
  ELSE RAdd(RMul(ret.passes[k].w,
                 RMul(BlendedScore(ret.passes[k], args.rules),
                      RMul(StatedDignityBase(ret.passes[k].planet,
                                             ret.passes[k].transit_rasi, args.rules),
                           StatedRetroMultiplier(ret.passes[k].planet,
                                                 IsRetrograde(ret.passes[k].planet, args.feat),
                                                 args.rules)))),
            UnobstructedModifier(dim, k + 1))

NonNegativeWeights(dim) ==
  \A j \in 1..Len(StatedDimensionPlanets(dim, args.rules)) :
    RLe(RInt(0), StatedDimensionPlanets(dim, args.rules)[j][2])

NonNegativeRetroFactors ==
  /\ RLe(RInt(0), StatedRetroFactor("benefic", args.rules))
  /\ RLe(RInt(0), StatedRetroFactor("malefic", args.rules))

\* a detected obstruction on a score that is not positive leaves the score
\* as it is, sets the obstructed flag and records nothing
NonPositiveUntouched ==
  \A k \in 1..Len(ret.passes) :
    NonPositiveObstructed(k) =>
      /\ ret.passes[k].s_raw = BlendedScore(ret.passes[k], args.rules)
      /\ ret.passes[k].vedha.is_obstructed
      /\ ret.val.vedha_impact[ret.passes[k].planet].is_obstructed
      /\ ~ret.passes[k].recorded

\* C28 as stated: a detected obstruction leaves a zero or negative blended
\* score unchanged, sets the flag and records nothing; so for non-negative
\* planet weights an obstruction never raises a dimension's modifier.
C28_NeverRaisesForWeights ==
  GocharaReturned =>
    /\ NonPositiveUntouched
    /\ \A dim \in DimensionSet :
         NonNegativeWeights(dim) =>
           RLe(ret.val.gochara_modifiers[dim], UnobstructedModifier(dim, 1))

\* C28: a detected obstruction leaves a zero or negative blended score
\* unchanged, sets the flag and records nothing; so for non-negative planet
\* weights and non-negative retrograde factors an obstruction never raises a
\* dimension's modifier.
C28_ObstructionNeverRaises ==
  GocharaReturned =>
    /\ NonPositiveUntouched
    /\ \A dim \in DimensionSet :
         (NonNegativeWeights(dim) /\ NonNegativeRetroFactors) =>
           RLe(ret.val.gochara_modifiers[dim], UnobstructedModifier(dim, 1))

\* an obstructed planet with a negative blended score, kept, in a dimension
\* of non-negative weights where another planet's positive score is zeroed:
\* the modifier is below the unobstructed one
C28_Witness ==
  /\ GocharaReturned
  /\ NonNegativeRetroFactors
  /\ \E k \in 1..Len(ret.passes) :
       /\ NonPositiveObstructed(k)
       /\ RLt(ret.passes[k].s_raw, RInt(0))
       /\ ~ret.passes[k].recorded
       /\ NonNegativeWeights(ret.passes[k].dimension)
       /\ RLt(ret.val.gochara_modifiers[ret.passes[k].dimension],
              UnobstructedModifier(ret.passes[k].dimension, 1))

\* a retrograde factor of -1: retrograde Jupiter's positive score is zeroed
\* by an obstruction and wealth, whose weights are positive, is raised
C28_RaisedByObstruction ==
  /\ GocharaReturned
  /\ args.rules = GocharaRetroCatalog
  /\ NonNegativeWeights("wealth")
  /\ \E k \in 1..Len(ret.passes) :
       /\ ret.passes[k].dimension = "wealth"
       /\ ret.passes[k].planet = "Jup"
       /\ ret.passes[k].recorded
  /\ RLt(UnobstructedModifier("wealth", 1), ret.val.gochara_modifiers["wealth"])

\* ======================================================================
\* Total index and the dimension scores
\* ======================================================================

\* The smallest and the largest of the five returned dimension scores
LowestDimension(pack) ==
  CHOOSE s \in { pack.dimensions[dim] : dim \in DimensionSet } :
    \A dim \in DimensionSet : s <= pack.dimensions[dim]

HighestDimension(pack) ==
  CHOOSE s \in { pack.dimensions[dim] : dim \in DimensionSet } :
    \A dim \in DimensionSet : s >= pack.dimensions[dim]

ClampOrdered == RLe(StatedClamp(args.rules, "min"), StatedClamp(args.rules, "max"))

\* C29: for every output of synthesize_scores with clamp bounds min <= max,
\* the total index lies between the smallest and the largest of the five
\* dimension scores.
C29_TotalWithinDimensions ==
  (SynthReturned /\ ClampOrdered) =>
    /\ LowestDimension(ret.val) <= ret.val.total_index
    /\ ret.val.total_index <= HighestDimension(ret.val)

\* dimension scores that differ, none at a clamp bound, and a total index
\* strictly between the smallest and the largest
C29_Witness ==
  /\ SynthReturned
  /\ ClampOrdered
  /\ LowestDimension(ret.val) < ret.val.total_index
  /\ ret.val.total_index < HighestDimension(ret.val)
  /\ \A dim \in DimensionSet :
       /\ RLt(StatedClamp(args.rules, "min"), RInt(ret.val.dimensions[dim]))
       /\ RLt(RInt(ret.val.dimensions[dim]), StatedClamp(args.rules, "max"))

\* every dimension clamped to 99.5 and rounded to 100, above max: the blend
\* of the five, 100, is clamped and rounded the same way
C29_WitnessAboveMax ==
  /\ SynthReturned
  /\ "clamp" \in DOMAIN args.rules
  /\ args.rules["clamp"] = [min |-> <<11, 2>>, max |-> <<199, 2>>]
  /\ \A dim \in DimensionSet : ret.val.dimensions[dim] = 100
  /\ ret.val.total_index = 100

\* dimension scores that differ, and a total index equal to the lowest of
\* them
C29_WitnessAtFloor ==
  /\ SynthReturned
  /\ ClampOrdered
  /\ LowestDimension(ret.val) < HighestDimension(ret.val)
  /\ ret.val.total_index = LowestDimension(ret.val)

\* ======================================================================
\* Calendar: api/calendar.calendar_page and day_page
\* ======================================================================
\* The site takes its requests one at a time: an upload, a calendar page or
\* a day page.  A calendar request carries the file id, the server's date,
\* the date in the profile's zone, and what the ephemeris and the rule
\* catalog give score_day for each day of the month (the scores, or an
\* exception); a day request carries the file id and the date of the path.

\* date.isoformat()
FourDigits(n) ==
  <<DigitChar(n \div 1000), DigitChar((n \div 100) % 10),
    DigitChar((n \div 10) % 10), DigitChar(n % 10)>>

isoformat(d) == FourDigits(d[1]) \o <<"-">> \o TwoDigits(d[2]) \o <<"-">> \o TwoDigits(d[3])

\* calendar.monthrange(year, month): the weekday of the first day of the
\* month (Monday is 0) and the number of days
monthrange(year, month) ==
  <<(date(year, month, 1).val + 6) % 7, DaysInMonth(year, month)>>

\* score_day as far as the day pack goes: the date, the scores of the day
\* and what the pack copies from the chart
score_day(parsed_profile, d, outcome) ==
  IF outcome.exc # "" THEN outcome
  ELSE LET natal_moon_rasi ==
             IF parsed_profile.natal_moon_rasi # NoneStr
             THEN parsed_profile.natal_moon_rasi
             ELSE IF IsNoneDict(parsed_profile.planet_rasi) THEN NoneStr
             ELSE Get(parsed_profile.planet_rasi, "Moon", NoneStr)
       IN  Ok([date |-> isoformat(d),
               day_score |-> outcome.val.total_index,
               signal |-> outcome.val.signal,
               user_profile |->
                 [lagna |-> parsed_profile.lagna_rasi,
                  natal_moon_rasi |-> natal_moon_rasi,
                  dasha_period |->
                    <<parsed_profile.dasha_maha, "-", parsed_profile.dasha_antar>>],
               scores |->
                 [total_index |-> outcome.val.total_index,
                  dimensions |-> outcome.val.dimensions]])

\* _inject_deltas: each day's scores get the differences to the day before,
\* zero on the first day
_inject_deltas(days) ==
  [i \in 1..Len(days) |->
     [days[i] EXCEPT !.scores =
        ("deltas" :>
           [k \in DimensionSet |->
              IF i = 1 THEN 0
              ELSE Get(days[i].scores.dimensions, k, 0)
                     - Get(days[i - 1].scores.dimensions, k, 0)])
          @@ days[i].scores]]

\* the loop over the days of the month: the packs, or what the first
\* failing score_day raises
month_days(parsed_profile, year, month, ephemeris) ==
  LET days_in_month == monthrange(year, month)[2]
      out(daynum) == score_day(parsed_profile, <<year, month, daynum>>, ephemeris[daynum])
      failing == { daynum \in 1..days_in_month : out(daynum).exc # "" }
  IN  IF failing # {}
      THEN out(CHOOSE daynum \in failing : \A other \in failing : daynum <= other)
      ELSE Ok([daynum \in 1..days_in_month |-> out(daynum).val])

\* the week grid, a day held as its number and None as 0
RECURSIVE remaining_weeks(_, _)
remaining_weeks(day_index, days_in_month) ==
  IF day_index > days_in_month THEN <<>>
  ELSE << [pos \in 1..7 |->
             IF day_index + pos - 1 <= days_in_month THEN day_index + pos - 1 ELSE 0] >>
         \o remaining_weeks(day_index + 7, days_in_month)

week_grid(first_weekday, days_in_month) ==
  << [pos \in 1..7 |-> IF pos - 1 >= first_weekday THEN pos - first_weekday ELSE 0] >>
    \o remaining_weeks(7 - first_weekday + 1, days_in_month)

\* the zones ZoneInfo knows
KnownZones == {"UTC", "Asia/Tokyo"}

\* mutant: the zone is written back as the default
calendar_profile_zone_reset(profile, days) ==
  [k \in DOMAIN profile \cup {"calendar_30d"} |->
     IF k = "calendar_30d" THEN days
     ELSE IF k = "calendar_tz" THEN "UTC" ELSE profile[k]]

\* profile["calendar_30d"] = days
calendar_profile(profile, days) ==
  [k \in DOMAIN profile \cup {"calendar_30d"} |->
     IF k = "calendar_30d" THEN days ELSE profile[k]]

\* calendar_page: the store after the request and the response
calendar_page(store, request) ==
  LET loaded == load_profile(store, request.file_id)
      profile == loaded.val
      tz == Get(profile, "calendar_tz", "UTC")
      year == request.today[1]
      month == request.today[2]
      scored == month_days(profile.parsed, year, month, request.ephemeris)
      days == _inject_deltas(scored.val)
      today_str == IF tz \in KnownZones THEN isoformat(request.zone_today)
                   ELSE isoformat(request.today)
  IN  IF loaded.exc # "" THEN [store |-> store, response |-> loaded]
      ELSE IF scored.exc # "" THEN [store |-> store, response |-> scored]
      ELSE [store |-> save_profile(store, request.file_id, calendar_profile(profile, days)),
            response |->
              Ok([template |-> "calendar.html", file_id |-> request.file_id,
                  tz |-> tz, year |-> year, month |-> month,
                  weeks |-> week_grid(monthrange(year, month)[1], monthrange(year, month)[2]),
                  today_str |-> today_str])]

\* day_page: the response; nothing is written
day_page(store, request) ==
  LET loaded == load_profile(store, request.file_id)
      days == _inject_deltas(Get(loaded.val, "calendar_30d", <<>>))
      hits == { i \in 1..Len(days) : days[i].date = request.yyyy_mm_dd }
  IN  IF loaded.exc # "" THEN loaded
      ELSE IF hits = {}
      THEN Ok([template |-> "", file_id |-> request.file_id,
               body |-> "No calendar generated. Go to /calendar/{file_id} first."])
      ELSE Ok([template |-> "day.html", file_id |-> request.file_id,
               day |-> days[CHOOSE i \in hits : \A other \in hits : i <= other]])

\* ---- the requests ----

DayOutcome(total_index, signal, emotion, career) ==
  Ok([total_index |-> total_index, signal |-> signal,
      dimensions |-> [dim \in DimensionSet |->
                        IF dim = "emotion" THEN emotion
                        ELSE IF dim = "career" THEN career ELSE total_index]])

\* what the month's days get: scores that move from day to day, and a month
\* whose third day raises
Ephemerides ==
  { [daynum \in 1..31 |->
       DayOutcome(60 + (daynum % 5), IF daynum % 5 > 2 THEN "green" ELSE "yellow",
                  50 + ((7 * daynum) % 11), 70 - (daynum % 3))],
    [daynum \in 1..31 |->
       IF daynum = 3 THEN Raise("IndexError", "list index out of range")
       ELSE DayOutcome(55, "yellow", 55, 55)] }

\* the server's date and the date in the profile's zone
Clocks ==
  { [today |-> <<2027, 2, 14>>, zone_today |-> <<2027, 2, 15>>],
    [today |-> <<2026, 8, 31>>, zone_today |-> <<2026, 8, 31>>] }

\* the file ids asked for: those of the uploads, made or not
SiteFileIds == 1..MaxUploads

SiteUploads(file_id) ==
  { [text |-> u[1], calendar_tz |-> u[2], device_tz |-> u[3],
     file_id |-> file_id, today |-> date(2001, 5, 7).val] :
      u \in { <<ReportText(BaseNakLine, TimeZoneLine(8, 0, 0, "East"), "Sc",
                           BaseBody, BaseVimsottari, BaseExtra),
                "Asia/Tokyo", "UTC">>,
              <<ReportText(BaseNakLine, TimeZoneLine(19, 30, 35, "West"), "Xx",
                           <<>>, BaseVimsottari, BaseExtra),
                "auto", "Mars/Base">>,
              <<ReportText(BaseNakLine, NoLine, "Sc",
                           BaseBody, BaseVimsottari, BaseExtra),
                "auto", "">> } }

CalendarRequests ==
  { [file_id |-> file_id, today |-> clock.today, zone_today |-> clock.zone_today,
     ephemeris |-> ephemeris] :
      file_id \in SiteFileIds, clock \in Clocks, ephemeris \in Ephemerides }

DayRequests ==
  { [file_id |-> file_id, yyyy_mm_dd |-> yyyy_mm_dd] :
      file_id \in SiteFileIds,
      yyyy_mm_dd \in { isoformat(<<2027, 2, 14>>),
                       <<"2", "0", "2", "6", "-", "8", "-", "2">> } }

InitCalendar ==
  /\ fn = "upload_file"
  /\ args \in SiteUploads(1)
  /\ pc = "call"
  /\ ret = Pending
  /\ uploads = <<>>
  /\ profiles = <<>>
  /\ LoaderUnused

\* the whole handler of /calendar/{file_id}
CalendarPage ==
  /\ pc = "call"
  /\ fn = "calendar_page"
  /\ profiles' = calendar_page(profiles, args).store
  /\ ret' = calendar_page(profiles, args).response
  /\ pc' = "return"
  /\ UNCHANGED <<fn, args, cache, reads, data, uploads>>

\* the whole handler of /day/{file_id}/{yyyy_mm_dd}
DayPage ==
  /\ pc = "call"
  /\ fn = "day_page"
  /\ ret' = day_page(profiles, args)
  /\ pc' = "return"
  /\ UNCHANGED <<fn, args, cache, reads, data, uploads, profiles>>

\* the next request arrives: an upload gets a fresh file id
NextSiteRequest ==
  /\ pc = "return"
  /\ \/ /\ Cardinality(DOMAIN uploads) < MaxUploads
        /\ fn' = "upload_file"
        /\ args' \in SiteUploads(Cardinality(DOMAIN uploads) + 1)
     \/ /\ fn' = "calendar_page"
        /\ args' \in CalendarRequests
     \/ /\ fn' = "day_page"
        /\ args' \in DayRequests
  /\ pc' = "call"
  /\ ret' = Pending
  /\ UNCHANGED <<cache, reads, data, uploads, profiles>>

NextCalendar == UploadFile \/ CalendarPage \/ DayPage \/ NextSiteRequest

SpecCalendar == InitCalendar /\ [][NextCalendar]_vars

\* ---- the stored chart ----

StoredProfile(store, file_id) == json_loads(store[file_id])

\* the keys of a stored profile other than the calendar
KeptKeys(store, file_id) == DOMAIN store[file_id].v \ {"calendar_30d"}

\* a step keeps the chart and the zone of every stored profile, as the file
\* holds them
ChartKept ==
  \A file_id \in DOMAIN profiles :
    /\ file_id \in DOMAIN profiles'
    /\ profiles'[file_id].v["parsed"] = profiles[file_id].v["parsed"]
    /\ profiles'[file_id].v["calendar_tz"] = profiles[file_id].v["calendar_tz"]

\* a calendar_page step writes the profile it was asked for at most, and of
\* that profile the calendar_30d entry alone
OnlyCalendarReplaced ==
  (fn = "calendar_page" /\ pc = "call") =>
    /\ DOMAIN profiles' = DOMAIN profiles
    /\ \A file_id \in DOMAIN profiles :
         IF file_id # args.file_id THEN profiles'[file_id] = profiles[file_id]
         ELSE /\ KeptKeys(profiles', file_id) = KeptKeys(profiles, file_id)
              /\ \A k \in KeptKeys(profiles, file_id) :
                   profiles'[file_id].v[k] = profiles[file_id].v[k]

\* a day_page step writes nothing
DayPageWritesNothing ==
  (fn = "day_page" /\ pc = "call") => profiles' = profiles /\ uploads' = uploads

\* C30: over any sequence of calendar_page and day_page requests the stored
\* profile's parsed chart and calendar_tz stay those written by upload;
\* calendar_page replaces only the calendar_30d entry, and day_page writes
\* nothing.
C30_ChartNeverChanged ==
  [][ChartKept /\ OnlyCalendarReplaced /\ DayPageWritesNothing]_vars

\* a day page found in the calendar of a profile whose calendar was
\* generated: the stored chart is still the one the uploaded report gives
C30_Witness ==
  /\ fn = "day_page"
  /\ pc = "return"
  /\ ret.exc = ""
  /\ ret.val.template = "day.html"
  /\ "calendar_30d" \in DOMAIN StoredProfile(profiles, args.file_id)
  /\ StoredProfile(profiles, args.file_id).parsed.lagna_rasi = "Sc"
  /\ StoredProfile(profiles, args.file_id).parsed
       = profile_data("Asia/Tokyo",
                      parse_report_text(uploads[args.file_id],
                                        date(2001, 5, 7).val).val).parsed
  /\ StoredProfile(profiles, args.file_id).calendar_tz = "Asia/Tokyo"

\* a calendar generated a second time, for another month, over a chart with
\* absent fields
C30_WitnessRegenerated ==
  /\ fn = "calendar_page"
  /\ pc = "return"
  /\ ret.exc = ""
  /\ ret.val.month = 8
  /\ StoredProfile(profiles, args.file_id).calendar_tz = "Mars/Base"
  /\ IsNoneDict(StoredProfile(profiles, args.file_id).parsed.planet_rasi)
  /\ Len(StoredProfile(profiles, args.file_id).calendar_30d) = 31
  /\ ret.val.today_str = isoformat(<<2026, 8, 31>>)

\* a calendar request that raises on the third day of the month leaves the
\* calendar generated before
C30_WitnessRaised ==
  /\ fn = "calendar_page"
  /\ pc = "return"
  /\ ret.exc = "IndexError"
  /\ args.file_id \in DOMAIN profiles
  /\ "calendar_30d" \in DOMAIN StoredProfile(profiles, args.file_id)

=============================================================================
